---- MODULE Spec2Model ----
(***************************************************************************)
(* Seamless Mod Swiper: the mod acquisition and caching pipeline.          *)
(*                                                                         *)
(*   src/services/nexusService.ts   remote client and fetchModsBulk        *)
(*   src/services/cacheService.ts   IndexedDB cache (lines 1-360)           *)
(*   src/App.tsx                    loadModsBulk, auto-refresh, swipes      *)
(*   src/components/Swiper/CardStack.tsx  card position (lines 1-167)       *)
(*                                                                         *)
(* Nine specifications share the variables:                                *)
(*   Spec       the application: user events, async tasks, cache            *)
(*   SpecLive   the asynchronous calls of the application, each awaited     *)
(*              promise settling (weak fairness)                            *)
(*   SpecFetch  one fetchModsBulk call, step by step, on arbitrary replies  *)
(*   SpecCache  the cache service on arbitrary batches                      *)
(*   SpecPersist  the approved list and the seen set in localStorage,       *)
(*              across reloads of the page                                  *)
(*   SpecDecide the handlers of the approved list and the seen set, the     *)
(*              reset included, across reloads of the page                  *)
(*   SpecMerge  the merge of the cached and the fetched batch               *)
(*   SpecSwipe  the card stack: key presses, buttons, drags, timers and      *)
(*              changes of the queue                                        *)
(*   SpecRace   appendToCachedMods calls in flight together, request by     *)
(*              request                                                     *)
(***************************************************************************)
EXTENDS Integers, Sequences, FiniteSets, TLC

(***************************************************************************)
(* Program constants.                                                      *)
(***************************************************************************)
BULK_FETCH_COUNT == 300
LOW_QUEUE_THRESHOLD == 20
AUTO_REFRESH_COOLDOWN == 60000
SPLICE_LIMIT == 50
batchSize == 10

(***************************************************************************)
(* Bounds of the model.                                                    *)
(***************************************************************************)
\* foreground loadModsBulk calls that may be in flight together
MaxLoads == 2
\* loadModsBulk calls the user starts per run (the reload of a reset included)
MaxStarts == 2
\* swipes explored per run
MaxSwipes == 2
\* clock steps explored per run
MaxTicks == 1
\* resets explored per run
MaxResets == 1
\* logouts explored per run
MaxLogouts == 1
\* length of a batch handed to the cache service in SpecCache
MaxBatchLen == 2
\* number of cache writes explored in SpecCache
MaxWrites == 3
\* appendToCachedMods calls in flight together in SpecRace
MaxAppends == 2
\* changes of the queue (setMods) in SpecSwipe
MaxDeliveries == 2
\* the count argument of fetchModsBulk in SpecFetch ranges over 0..MaxCount
MaxCount == 2
\* arrays up to this length are shuffled into every order
MaxShuffle == 2
\* Date.now() when the session starts, and the length of a clock step (ms)
StartTime == 1000000
TickMs == 60000

(***************************************************************************)
(* Generic helpers.                                                        *)
(***************************************************************************)
Range(s) == {s[i] : i \in 1..Len(s)}

Min(a, b) == IF a < b THEN a ELSE b

Max(a, b) == IF a > b THEN a ELSE b

\* Array.prototype.slice(0, n)
Take(s, n) == SubSeq(s, 1, Min(n, Len(s)))

\* all orderings of a finite set, as sequences without repetition
RECURSIVE Perms(_)
Perms(S) ==
    IF S = {} THEN {<<>>}
    ELSE UNION {{<<x>> \o p : p \in Perms(S \ {x})} : x \in S}

\* all reorderings of a sequence
PermsOfSeq(s) ==
    {[i \in 1..Len(s) |-> s[p[i]]] : p \in Perms(1..Len(s))}

Reverse(s) == [i \in 1..Len(s) |-> s[Len(s) + 1 - i]]

\* the elements of a set of integers within lo..hi, in ascending order.
\* (Here and below a value that is used many times is bound once by a
\* constructor over a singleton set, {e(x) : x \in {v}}, instead of LET.)
Ascending(S, lo, hi) ==
    CHOOSE q \in {SelectSeq([i \in 1..(hi - lo + 1) |-> lo + i - 1], LAMBDA x : x \in T) :
                     T \in {S}} : TRUE

\* shuffleArray (Fisher-Yates with Math.random): every order is a possible
\* outcome.  Arrays of more than MaxShuffle elements are explored in the
\* given and in the reversed order only.
shuffleArray(s) ==
    UNION {IF Len(q) <= MaxShuffle THEN PermsOfSeq(q) ELSE {q, Reverse(q)} : q \in {s}}

(***************************************************************************)
(* Listings.  A Mod carries the fields the pipeline reads; an optional     *)
(* string field that is absent is "", the optional boolean available is    *)
(* "absent", "true" or "false".  ver tells two replies for one id apart.   *)
(***************************************************************************)
Games == {"cyberpunk2077", "reddeadredemption2"}

MkMod(id, nm, pic, sm, st, av, dom, v) ==
    [mod_id |-> id, name |-> nm, picture_url |-> pic, summary |-> sm,
     status |-> st, available |-> av, domain_name |-> dom, ver |-> v]

\* String.prototype.trim on the names the model uses
Trim(s) == IF s = " " THEN "" ELSE s

isValidMod_NoStatusCheck(mod) ==
    /\ ~(mod.name = "" \/ Trim(mod.name) = "")
    /\ ~(mod.picture_url = "" /\ mod.summary = "")
    /\ ~(mod.available = "false")

isValidMod(mod) ==
    /\ ~(mod.name = "" \/ Trim(mod.name) = "")
    /\ ~(mod.picture_url = "" /\ mod.summary = "")
    /\ ~(mod.status # "" /\ mod.status # "published")
    /\ ~(mod.available = "false")

\* the bodies the remote service may send for one id (without domain_name)
Shapes ==
    { [name |-> "n", picture_url |-> "p", summary |-> "",  status |-> "",          available |-> "absent"],
      [name |-> "n", picture_url |-> "",  summary |-> "s", status |-> "published", available |-> "true"],
      [name |-> "",  picture_url |-> "p", summary |-> "s", status |-> "published", available |-> "true"],
      [name |-> " ", picture_url |-> "p", summary |-> "s", status |-> "",          available |-> "absent"],
      [name |-> "n", picture_url |-> "",  summary |-> "",  status |-> "published", available |-> "true"],
      [name |-> "n", picture_url |-> "p", summary |-> "s", status |-> "hidden",    available |-> "absent"],
      [name |-> "n", picture_url |-> "p", summary |-> "s", status |-> "published", available |-> "false"] }

RawMod(id, sh, v) ==
    MkMod(id, sh.name, sh.picture_url, sh.summary, sh.status, sh.available, "", v)

\* a displayable listing of a game, as a successful fetch stores it
GoodMod(id, game, v) == MkMod(id, "n", "p", "", "", "absent", game, v)

\* { ...mod, domain_name: mod.domain_name || game }
WithDomain(mod, game) ==
    [mod EXCEPT !.domain_name = IF mod.domain_name = "" THEN game ELSE mod.domain_name]

ModIds(s) == {s[i].mod_id : i \in 1..Len(s)}

(***************************************************************************)
(* Remote Source Client.  A reply is what the network gave: kind "ok" with *)
(* a body, "http" with a non-2xx status, or "exception" (fetch rejected or *)
(* the body did not parse).                                                *)
(***************************************************************************)
NoError == [text |-> "", num |-> 0]

\* fetchUpdatedModIds: the ids of one recency window, or a thrown Error
fetchUpdatedModIds(reply) ==
    IF reply.kind = "ok"
    THEN [threw |-> FALSE, error |-> NoError, modIds |-> reply.ids]
    ELSE IF reply.kind = "http"
    THEN [threw |-> TRUE,
          error |-> [text |-> "Failed to fetch updated mods: ", num |-> reply.status],
          modIds |-> <<>>]
    ELSE [threw |-> TRUE, error |-> [text |-> "network", num |-> 0], modIds |-> <<>>]

\* fetchModDetails: <<mod>> on a 2xx reply, <<>> (null) on every failure
fetchModDetails_Rethrow(game, reply) ==
    IF reply.kind = "ok"
    THEN [threw |-> FALSE, mod |-> <<WithDomain(reply.body, game)>>]
    ELSE [threw |-> TRUE, mod |-> <<>>]

fetchModDetails(game, reply) ==
    IF reply.kind = "ok"
    THEN [threw |-> FALSE, mod |-> <<WithDomain(reply.body, game)>>]
    ELSE [threw |-> FALSE, mod |-> <<>>]

\* .filter(isValidMod) after the domain_name default
RECURSIVE MapFilterValid(_, _)
MapFilterValid(s, game) ==
    IF s = <<>> THEN <<>>
    ELSE LET m == WithDomain(Head(s), game)
         IN  (IF isValidMod(m) THEN <<m>> ELSE <<>>) \o MapFilterValid(Tail(s), game)

\* fetchFromListEndpoint: the valid listings of a curated list, or a thrown Error
fetchFromListEndpoint(game, reply) ==
    IF reply.kind = "ok"
    THEN [threw |-> FALSE, error |-> NoError, mods |-> MapFilterValid(reply.body, game)]
    ELSE IF reply.kind = "exception"
    THEN [threw |-> TRUE, error |-> [text |-> "network", num |-> 0], mods |-> <<>>]
    ELSE IF reply.status = 401
    THEN [threw |-> TRUE,
          error |-> [text |-> "Invalid API Key. Please check your Nexus Mods API key.", num |-> 0],
          mods |-> <<>>]
    ELSE IF reply.status = 429
    THEN [threw |-> TRUE,
          error |-> [text |-> "Rate limited by Nexus API. Please wait N seconds before trying again.",
                     num |-> reply.retryAfter],
          mods |-> <<>>]
    ELSE IF reply.status = 403
    THEN [threw |-> TRUE,
          error |-> [text |-> "Access forbidden. Your API key may not have permission for this request.",
                     num |-> 0],
          mods |-> <<>>]
    ELSE [threw |-> TRUE, error |-> [text |-> "Nexus API Error: ", num |-> reply.status],
          mods |-> <<>>]

(***************************************************************************)
(* fetchModsBulk, phase by phase.  acc is the pair of locals               *)
(* [seenIds, allMods] of the call.                                         *)
(***************************************************************************)
\* Phase 1: Promise.allSettled over the windows; rejected windows are only logged
RECURSIVE PoolIds(_, _)
PoolIds(poolResults, seenIds) ==
    IF poolResults = <<>> THEN {}
    ELSE LET r == Head(poolResults)
         IN  (IF r.threw THEN {} ELSE {id \in Range(r.modIds) : id \notin seenIds})
             \cup PoolIds(Tail(poolResults), seenIds)

\* the same with Promise.all: one rejected window rejects the call
PoolThrew_All(poolResults) == \E i \in 1..Len(poolResults) : poolResults[i].threw

PoolThrew(poolResults) == FALSE

\* Phase 2, one batch: the loop over the results of Promise.all
RECURSIVE ProcessDetails(_, _)
ProcessDetails(results, acc) ==
    IF results = <<>> THEN acc
    ELSE LET r == Head(results)
             take == /\ r.mod # <<>>
                     /\ isValidMod(r.mod[1])
                     /\ r.mod[1].mod_id \notin acc.seenIds
         IN  ProcessDetails(Tail(results),
                 IF take
                 THEN [seenIds |-> acc.seenIds \cup {r.mod[1].mod_id},
                       allMods |-> Append(acc.allMods, r.mod[1])]
                 ELSE acc)

RECURSIVE MergeList_NoDedup(_, _)
MergeList_NoDedup(listMods, acc) ==
    IF listMods = <<>> THEN acc
    ELSE LET m == Head(listMods)
         IN  MergeList_NoDedup(Tail(listMods),
                 [seenIds |-> acc.seenIds \cup {m.mod_id},
                  allMods |-> Append(acc.allMods, m)])

\* Phase 3: the loop over the mods of one curated list
RECURSIVE MergeList(_, _)
MergeList(listMods, acc) ==
    IF listMods = <<>> THEN acc
    ELSE LET m == Head(listMods)
         IN  MergeList(Tail(listMods),
                 IF m.mod_id \notin acc.seenIds
                 THEN [seenIds |-> acc.seenIds \cup {m.mod_id},
                       allMods |-> Append(acc.allMods, m)]
                 ELSE acc)

RECURSIVE MergeLists(_, _)
MergeLists(listResults, acc) ==
    IF listResults = <<>> THEN acc
    ELSE MergeLists(Tail(listResults), MergeList(Head(listResults).mods, acc))

ListsThrew(listResults) == \E i \in 1..Len(listResults) : listResults[i].threw

\* the rejection Promise.all reports: that of one rejected endpoint
ListErrors(listResults) ==
    {listResults[i].error : i \in {j \in 1..Len(listResults) : listResults[j].threw}}

(***************************************************************************)
(* Local Cache Store (cacheService.ts, the IndexedDB service).  A call     *)
(* runs in one IndexedDB transaction; transactions whose scopes overlap    *)
(* are serialized by IndexedDB, so the body of a transaction is one step.  *)
(* A transaction that errors is rolled back.                               *)
(***************************************************************************)
\* `${game}_${modId}`: game names hold no digit after an underscore, so the
\* string determines the pair; the model keeps the pair
getModCacheKey(game, modId) == <<game, modId>>

CacheEntry(game, mod, t) ==
    [cacheKey |-> getModCacheKey(game, mod.mod_id), game |-> game,
     mod_id |-> mod.mod_id, data |-> mod, timestamp |-> t]

Put_Alone(store, entry) == [k \in {entry.cacheKey} |-> entry]

\* store.put(entry): insert or overwrite by key path
Put(store, entry) ==
    [k \in DOMAIN store \cup {entry.cacheKey} |->
        IF k = entry.cacheKey THEN entry ELSE store[k]]

\* the loop of appendToCachedMods: get, then put when nothing was found
RECURSIVE appendLoop_Overwrite(_, _, _, _)
appendLoop_Overwrite(store, game, newMods, t) ==
    IF newMods = <<>> THEN store
    ELSE appendLoop_Overwrite(Put(store, CacheEntry(game, Head(newMods), t)),
                              game, Tail(newMods), t)

RECURSIVE appendLoop(_, _, _, _)
appendLoop(store, game, newMods, t) ==
    IF newMods = <<>> THEN store
    ELSE LET cacheKey == getModCacheKey(game, Head(newMods).mod_id)
             existing == cacheKey \in DOMAIN store
         IN  appendLoop(IF ~existing
                        THEN Put(store, CacheEntry(game, Head(newMods), t))
                        ELSE store,
                        game, Tail(newMods), t)

\* what IndexedDB may do to a call: "ok", "openFail" (openDB rejects: caught
\* inside the service), "txError" (the request or transaction errors)
StorageOutcomes == {"ok", "openFail", "txError"}

\* an append that first drops the entries written before the call's time
appendToCachedMods_Expiring(store, game, newMods, t, outcome) ==
    LET kept == [k \in {j \in DOMAIN store : store[j].timestamp >= t} |-> store[k]]
        after == IF outcome = "ok" THEN appendLoop(kept, game, newMods, t) ELSE store
    IN  [store |-> after, rejected |-> outcome = "txError",
         addedCount |-> Cardinality(DOMAIN after \ DOMAIN store)]

\* appendToCachedMods: the store afterwards, the resolved addedCount, or the
\* rejection (the promise returned from inside the try is not awaited there,
\* so its rejection passes the catch)
appendToCachedMods(store, game, newMods, t, outcome) ==
    IF outcome = "ok"
    THEN LET after == appendLoop(store, game, newMods, t)
         IN  [store |-> after, rejected |-> FALSE,
              addedCount |-> Cardinality(DOMAIN after) - Cardinality(DOMAIN store)]
    ELSE IF outcome = "openFail"
    THEN [store |-> store, rejected |-> FALSE, addedCount |-> 0]
    ELSE [store |-> store, rejected |-> TRUE, addedCount |-> 0]

\* the loop of setCachedMods: put, whatever was stored
RECURSIVE setLoop(_, _, _, _)
setLoop(store, game, mods, t) ==
    IF mods = <<>> THEN store
    ELSE setLoop(Put(store, CacheEntry(game, Head(mods), t)), game, Tail(mods), t)

\* the record of the meta store with key `lastUpdate_${game}`; the model
\* keeps the game as the key
MetaEntry(game, t, n) == [key |-> game, timestamp |-> t, modCount |-> n]

\* setCachedMods: the stores afterwards, or the rejection
setCachedMods(store, meta, game, mods, t, outcome) ==
    IF outcome = "ok"
    THEN [store |-> setLoop(store, game, mods, t),
          meta |-> [g \in DOMAIN meta \cup {game} |->
                       IF g = game THEN MetaEntry(game, t, Len(mods)) ELSE meta[g]],
          rejected |-> FALSE]
    ELSE IF outcome = "openFail"
    THEN [store |-> store, meta |-> meta, rejected |-> FALSE]
    ELSE [store |-> store, meta |-> meta, rejected |-> TRUE]

\* index('game').getAllKeys(game), were it the index on mod_id
GameKeys_ByModId(store, game) ==
    {k \in DOMAIN store : \E k2 \in DOMAIN store :
        store[k2].game = game /\ store[k2].mod_id = store[k].mod_id}

GameKeys(store, game) == {k \in DOMAIN store : store[k].game = game}

CachedIds(store, game) == {store[k].mod_id : k \in GameKeys(store, game)}

\* the ids of the model: index.getAll(game) returns the entries in key order,
\* the order of the strings `${game}_${modId}`; all ids that reach the cache
\* have the same number of digits, so this is the order of the ids
IdLo == 1

IdHi == 303

\* getCachedMods: every cached listing of the game, or [] when openDB fails,
\* or a rejection when the request errors
getCachedMods(store, game, outcome) ==
    IF outcome = "ok"
    THEN CHOOSE result \in
            {[rejected |-> FALSE,
              mods |-> [i \in 1..Len(ids) |-> store[getModCacheKey(game, ids[i])].data]] :
                ids \in {Ascending(CachedIds(store, game), IdLo, IdHi)}} : TRUE
    ELSE IF outcome = "openFail"
    THEN [rejected |-> FALSE, mods |-> <<>>]
    ELSE [rejected |-> TRUE, mods |-> <<>>]

\* getCachedModCount
getCachedModCount(store, game, outcome) ==
    IF outcome = "ok"
    THEN [rejected |-> FALSE, count |-> Cardinality(GameKeys(store, game))]
    ELSE IF outcome = "openFail"
    THEN [rejected |-> FALSE, count |-> 0]
    ELSE [rejected |-> TRUE, count |-> 0]

\* clearModCache without metaStore.delete
\* a clear that reports success and deletes nothing
clearModCache_Nothing(store, meta, game, outcome) ==
    [store |-> store, meta |-> meta, rejected |-> outcome = "txError"]

clearModCache_KeepsMeta(store, meta, game, outcome) ==
    IF outcome = "ok"
    THEN [store |-> [k \in DOMAIN store \ GameKeys(store, game) |-> store[k]],
          meta |-> meta,
          rejected |-> FALSE]
    ELSE IF outcome = "openFail"
    THEN [store |-> store, meta |-> meta, rejected |-> FALSE]
    ELSE [store |-> store, meta |-> meta, rejected |-> TRUE]

\* clearModCache: deletes the entries of the game and its metadata record
clearModCache(store, meta, game, outcome) ==
    IF outcome = "ok"
    THEN [store |-> [k \in DOMAIN store \ GameKeys(store, game) |-> store[k]],
          meta |-> [g \in DOMAIN meta \ {game} |-> meta[g]],
          rejected |-> FALSE]
    ELSE IF outcome = "openFail"
    THEN [store |-> store, meta |-> meta, rejected |-> FALSE]
    ELSE [store |-> store, meta |-> meta, rejected |-> TRUE]

\* Math.round(x / 60000) for x >= 0
RoundMinutes(ms) == (ms + 30000) \div 60000

\* getCacheAge: <<minutes>>, or <<>> for null; never rejects
getCacheAge(meta, game, t, outcome) ==
    IF outcome = "ok" /\ game \in DOMAIN meta
    THEN <<RoundMinutes(t - meta[game].timestamp)>>
    ELSE <<>>

filterUnseenMods_All(mods, seenIds) == mods

\* filterUnseenMods
filterUnseenMods(mods, seenIds) == SelectSeq(mods, LAMBDA m : m.mod_id \notin seenIds)

(***************************************************************************)
(* State.                                                                  *)
(***************************************************************************)
VARIABLES
    fx          \* SpecFetch: the running fetchModsBulk call and its locals;
                \* windows and lists record the replies of the step just taken,
                \* failedWindows and itemFailed which requests of the call failed

VARIABLES
    modsStore,  \* IndexedDB object store 'mods': cacheKey -> entry
    metaStore,  \* IndexedDB object store 'meta': game -> [timestamp, modCount]
    now,        \* Date.now(), in milliseconds
    cx          \* SpecCache: the cache-service call just made and its result

\* App.tsx: React state and refs of the App component
VARIABLES
    apiKey,           \* "" is null
    selectedGame,
    view,             \* "landing", "swiping"
    mods,             \* the live queue handed to CardStack
    approvedMods,
    seenModIds,
    seenModIdsRef,    \* seenModIdsRef.current
    isLoading,
    isBulkLoading,
    loadProgress,     \* "" is null, "running" a phase before 'complete', "complete"
    error,            \* NoError is null
    cachedCount,
    cacheAge,         \* <<>> is null
    lastAutoRefresh,  \* lastAutoRefresh.current
    isAutoRefreshing  \* isAutoRefreshing.current

\* CardStack.tsx: the position of the top card in mods
VARIABLES
    currentIndex

\* the asynchronous calls in flight, and bookkeeping of the model
VARIABLES
    effectDeps,       \* dependency values of the auto-refresh effect when it last ran
    loads,            \* the loadModsBulk calls: slot 0 is the background call
                      \* awaited by checkAndAutoRefresh, the others are foreground calls
    autoCheck,        \* checkAndAutoRefresh past its guards
    resetTask,        \* handleResetProgress awaiting clearModCache
    hist,             \* history: what was delivered to the queue in this seen-set lifetime
    used              \* events explored so far, for the bounds

\* the environment
VARIABLES
    remote            \* what the remote service answers during this run

\* App.tsx 216-224: the merge of the foreground path, applied to two batches
VARIABLES
    mx                \* SpecMerge: the batches merged and the result

\* cacheService.ts 108-149: appendToCachedMods calls in flight together
VARIABLES
    ax                \* SpecRace: the calls, and the readwrite transactions on
                      \* the mods store in the order of their creation

\* CardStack.tsx 17-90: the state of the card stack besides its position
VARIABLES
    sx                \* SpecSwipe: isAnimating, exitDirection, the ref
                      \* swipeInProgress, the memoized triggerSwipe, the pending
                      \* timers, and (history) the calls of onApprove/onReject

\* App.tsx 50-80: the persisted decisions
VARIABLES
    localStorage,     \* the items 'seenModIds' and 'approvedMods'
    boot              \* where the App component is after a page load, the
                      \* state updates its initialization effect queued, and
                      \* (history) the page loads and the user's decisions so far

fxVars == <<fx>>

cacheVars == <<modsStore, metaStore, now>>

cxVars == <<cx>>

stateVars ==
    <<apiKey, selectedGame, view, mods, approvedMods, seenModIds, seenModIdsRef,
      isLoading, isBulkLoading, loadProgress, error, cachedCount, cacheAge,
      lastAutoRefresh, isAutoRefreshing, currentIndex>>

taskVars == <<effectDeps, loads, autoCheck, resetTask, hist, used>>

appVars == <<stateVars, taskVars, remote>>

persistVars == <<localStorage, boot>>

mxVars == <<mx>>

axVars == <<ax>>

sxVars == <<sx>>

vars == <<fx, modsStore, metaStore, now, cx, appVars, persistVars, mxVars, axVars, sxVars>>

(***************************************************************************)
(* The App component when it has mounted.                                  *)
(***************************************************************************)
\* slot of the background loadModsBulk call that checkAndAutoRefresh awaits
AutoSlot == 0

\* slots of the foreground loadModsBulk calls
UserSlots == 1..MaxLoads

Slots == {AutoSlot} \cup UserSlots

\* a slot without a call.  pc is the await the call is suspended at: "read"
\* getCachedMods, "net" fetchModsBulk, "write" appendToCachedMods, "stats"
\* getCachedModCount and getCacheAge.  remote and unseenAtRead record whether
\* the call issued fetchModsBulk and how many unseen listings its cache read gave
LoadIdle ==
    [pc |-> "idle", isBackground |-> FALSE, key |-> "", game |-> "",
     currentSeenIds |-> {}, unseenCached |-> <<>>, excludeIds |-> {},
     response |-> <<>>, remote |-> FALSE, unseenAtRead |-> 0]

\* checkAndAutoRefresh: "idle", "read" (awaiting getUnseenCachedMods) or
\* "load" (awaiting loadModsBulk); unseenAtRead records how many unseen
\* listings its cache read gave
AutoIdle == [pc |-> "idle", key |-> "", game |-> "", seenIds |-> {}, unseenAtRead |-> 0]

\* nothing delivered yet.  handed: ids put into the queue since the seen set
\* was last emptied; twice: ids put into it again; lastIds, lastSeen: the ids
\* of the latest delivery and the seen set at that moment; lastFailedWrite:
\* the listings fetched by a call whose cache write was rejected; lastNet:
\* when a fetchModsBulk call last settled (-1: none has)
HistEmpty ==
    [handed |-> {}, twice |-> {}, lastIds |-> {}, lastSeen |-> {},
     lastKind |-> "none", lastFailedWrite |-> <<>>, lastNet |-> -1]

UsedNone ==
    [starts |-> 0, swipes |-> 0, resets |-> 0, faults |-> 0, logouts |-> 0, rare |-> 0]

\* localStorage.getItem of a key that holds no item: null
NoItem == [kind |-> "null", items |-> <<>>]

\* JSON.stringify of an array of JSON values: the text of the array
JSON_stringify(array) == [kind |-> "text", items |-> array]

\* JSON.parse of a text that JSON.stringify wrote
JSON_parse(text) == text.items

\* Array.from(set) of a Set of numbers.  The model keeps a Set as a set; the
\* array lists its elements in ascending order.
RECURSIVE ArrayFrom(_)
ArrayFrom(set) ==
    IF set = {} THEN <<>>
    ELSE LET least == CHOOSE x \in set : \A y \in set : x <= y
         IN  <<least>> \o ArrayFrom(set \ {least})

\* new Set(array)
NewSet(array) == Range(array)

\* localStorage after localStorage.removeItem(key)
removeItem(storage, key) == [storage EXCEPT ![key] = NoItem]

SavedStorage_WithKey(seen, approved) ==
    [seenModIds |-> JSON_stringify(ArrayFrom(seen)),
     approvedMods |-> JSON_stringify(approved),
     apiKey |-> JSON_stringify(<<apiKey>>)]

\* localStorage after the two save effects (App.tsx 72-80) ran on a render
\* with these values
SavedStorage(seen, approved) ==
    [seenModIds |-> JSON_stringify(ArrayFrom(seen)),
     approvedMods |-> JSON_stringify(approved)]

\* the first page load of a run with its effects run: no state update is
\* queued, the user has decided nothing
BootFirst ==
    [pc |-> "ready", pending |-> [seen |-> <<>>, approved |-> <<>>], sessions |-> 1,
     decided |-> [seen |-> {}, approved |-> <<>>]]

\* Math.max(0, mods.length - currentIndex), which CardStack reports through
\* onQueueChange after every render; the model takes the reported value to be
\* the current one when the auto-refresh effect runs
QueueRemaining == Max(0, Len(mods) - currentIndex)

\* the dependency array of the auto-refresh effect
Deps ==
    <<QueueRemaining, apiKey, view, isLoading, isBulkLoading, selectedGame,
      Cardinality(seenModIds)>>

\* the effects of the last render have run
Flushed ==
    /\ seenModIdsRef = seenModIds
    /\ effectDeps = Deps
    /\ localStorage = SavedStorage(seenModIds, approvedMods)

\* a browser without stored decisions, when the component has mounted and its
\* effects have run: the save effects stored the empty initial state
PersistMounted ==
    /\ localStorage = SavedStorage({}, <<>>)
    /\ boot = BootFirst

AppMounted ==
    /\ apiKey = ""
    /\ selectedGame = "cyberpunk2077"
    /\ view = "landing"
    /\ mods = <<>>
    /\ approvedMods = <<>>
    /\ seenModIds = {}
    /\ seenModIdsRef = {}
    /\ isLoading = FALSE
    /\ isBulkLoading = FALSE
    /\ loadProgress = ""
    /\ error = NoError
    /\ cachedCount = 0
    /\ cacheAge = <<>>
    /\ lastAutoRefresh = 0
    /\ isAutoRefreshing = FALSE
    /\ currentIndex = 0
    /\ effectDeps = <<0, "", "landing", FALSE, FALSE, "cyberpunk2077", 0>>
    /\ loads = [i \in Slots |-> LoadIdle]
    /\ autoCheck = AutoIdle
    /\ resetTask = "idle"
    /\ hist = HistEmpty
    /\ used = UsedNone

(***************************************************************************)
(* SpecFetch: one fetchModsBulk(apiKey, game, count, onProgress,           *)
(* excludeIds) call with a truthy apiKey.  The replies of the remote       *)
(* service are inputs.                                                     *)
(***************************************************************************)
\* SpecFetch explores two kinds of call.  A small call has count in
\* 0..MaxCount over the ids 1..3, with every kind of reply.  A big call has
\* count = batchSize + 1 over the ids BigIds, so that the item requests need
\* a second batch; its item replies are a displayable body or, for the ids in
\* FailIds, a 404.
FxGame == "cyberpunk2077"

BigCount == batchSize + 1

BigFirst == 11

BigIds == BigFirst..(BigFirst + batchSize + 1)

BigSeq == [i \in 1..(batchSize + 2) |-> BigFirst + i - 1]

FailIds == {BigFirst, BigFirst + 1, BigFirst + batchSize + 1}

Periods == <<"1m", "1w", "1d">>

listEndpoints == <<"trending", "latest_added", "latest_updated">>

GoodShape == [name |-> "n", picture_url |-> "p", summary |-> "", status |-> "", available |-> "absent"]

HiddenShape == [name |-> "n", picture_url |-> "p", summary |-> "s", status |-> "hidden", available |-> "absent"]

\* what an index window may answer
WindowReplies(big) ==
    {[kind |-> "ok", ids |-> q, status |-> 200] :
        q \in IF big THEN {BigSeq} ELSE {<<>>, <<1, 2>>, <<2, 3, 3>>}}
    \cup {[kind |-> "http", ids |-> <<>>, status |-> st] : st \in {429, 500}}
    \cup {[kind |-> "exception", ids |-> <<>>, status |-> 0]}

\* what the item endpoint may answer for id: a body, a non-2xx status, or a
\* network/parse failure
DetailReplies(id) ==
    IF id \in BigIds
    THEN {[kind |-> "ok", body |-> RawMod(id, GoodShape, 1), status |-> 200]}
         \cup (IF id \in FailIds
               THEN {[kind |-> "http", body |-> RawMod(id, GoodShape, 1), status |-> 404]}
               ELSE {})
    ELSE {[kind |-> "ok", body |-> RawMod(id, sh, 1), status |-> 200] : sh \in Shapes}
         \cup {[kind |-> "http", body |-> RawMod(id, GoodShape, 1), status |-> 404],
               [kind |-> "exception", body |-> RawMod(id, GoodShape, 1), status |-> 0]}

\* what a curated-list endpoint may answer
ListReplies ==
    {[kind |-> "ok", body |-> b, status |-> 200, retryAfter |-> 0] :
        b \in {<<>>,
               <<RawMod(3, GoodShape, 2)>>,
               <<RawMod(1, GoodShape, 2), RawMod(2, HiddenShape, 2)>>}}
    \cup {[kind |-> "http", body |-> <<>>, status |-> st, retryAfter |-> 60] :
            st \in {401, 403, 429, 500}}
    \cup {[kind |-> "exception", body |-> <<>>, status |-> 0, retryAfter |-> 0]}

\* an item request that has not been answered yet
Pending == [done |-> FALSE, mod |-> <<>>]

FxIdle ==
    [pc |-> "idle", count |-> 0, excludeIds |-> {},
     windows |-> <<>>, pool |-> {}, idsToFetch |-> <<>>, i |-> 0,
     answered |-> <<>>, requested |-> <<>>,
     seenIds |-> {}, allMods |-> <<>>, lists |-> <<>>,
     mods |-> <<>>, error |-> NoError,
     failedWindows |-> {}, itemFailed |-> FALSE, big |-> FALSE]

BatchAt_Rest(idsToFetch, i) == SubSeq(idsToFetch, i + 1, Len(idsToFetch))

\* ids of the batch that starts at offset i: idsToFetch.slice(i, i + batchSize)
BatchAt(idsToFetch, i) == SubSeq(idsToFetch, i + 1, Min(i + batchSize, Len(idsToFetch)))

IdsToFetch_NoSlice(allModIds, count) ==
    shuffleArray(Ascending(allModIds, 0, BigFirst + batchSize + 1))

\* shuffleArray(Array.from(allModIds)).slice(0, count)
IdsToFetch(allModIds, count) ==
    {Take(p, count) : p \in shuffleArray(Ascending(allModIds, 0, BigFirst + batchSize + 1))}

\* fetchModsBulk is called: the three index requests go out
FxCall ==
    /\ UNCHANGED <<cacheVars, cxVars, mxVars, axVars, sxVars, appVars, persistVars>>
    /\ fx.pc = "idle"
    /\ \/ \E count \in 0..MaxCount, excludeIds \in {{}, {1}, {1, 2}} :
             fx' = [FxIdle EXCEPT !.pc = "pool", !.count = count,
                                  !.excludeIds = excludeIds, !.seenIds = excludeIds]
       \/ \E excludeIds \in {{}, {BigFirst + 2}} :
             fx' = [FxIdle EXCEPT !.pc = "pool", !.count = BigCount, !.big = TRUE,
                                  !.excludeIds = excludeIds, !.seenIds = excludeIds]

\* Promise.allSettled(poolPromises) settles; shuffle, slice, first batch goes out
FxPoolSettled ==
    /\ UNCHANGED <<cacheVars, cxVars, mxVars, axVars, sxVars, appVars, persistVars>>
    /\ fx.pc = "pool"
    /\ \E w \in [1..3 -> WindowReplies(fx.big)] :
          LET poolResults == [k \in 1..3 |-> fetchUpdatedModIds(w[k])]
              allModIds == PoolIds(poolResults, fx.seenIds)
          IN  IF PoolThrew(poolResults)
              THEN fx' = [fx EXCEPT !.pc = "threw", !.windows = w,
                                    !.error = poolResults[CHOOSE k \in 1..3 :
                                                             poolResults[k].threw].error]
              ELSE \E idsToFetch \in IdsToFetch(allModIds, fx.count) :
                      fx' = [fx EXCEPT
                               !.pc = IF Len(idsToFetch) > 0 THEN "details" ELSE "lists",
                               !.windows = w, !.pool = allModIds,
                               !.failedWindows = {k \in 1..3 : w[k].kind # "ok"},
                               !.idsToFetch = idsToFetch, !.i = 0,
                               !.answered = [k \in 1..Len(BatchAt(idsToFetch, 0)) |-> Pending],
                               !.requested = BatchAt(idsToFetch, 0)]

\* one fetchModDetails of the current batch settles
FxDetailReply ==
    /\ UNCHANGED <<cacheVars, cxVars, mxVars, axVars, sxVars, appVars, persistVars>>
    /\ fx.pc = "details"
    /\ \E k \in {j \in 1..Len(fx.answered) : ~fx.answered[j].done} :
       \E reply \in DetailReplies(BatchAt(fx.idsToFetch, fx.i)[k]) :
          LET r == fetchModDetails(FxGame, reply)
          IN  IF r.threw
              THEN fx' = [fx EXCEPT !.pc = "threw", !.windows = <<>>,
                                    !.error = [text |-> "item request failed", num |-> reply.status]]
              ELSE fx' = [fx EXCEPT !.answered[k] = [done |-> TRUE, mod |-> r.mod],
                                    !.windows = <<>>,
                                    !.itemFailed = fx.itemFailed \/ reply.kind # "ok"]

\* Promise.all of the batch has resolved: fold the results in, pause, then the
\* next batch goes out, or phase 3 starts
FxBatchDone ==
    /\ UNCHANGED <<cacheVars, cxVars, mxVars, axVars, sxVars, appVars, persistVars>>
    /\ fx.pc = "details"
    /\ \A j \in 1..Len(fx.answered) : fx.answered[j].done
    /\ LET acc == ProcessDetails(fx.answered, [seenIds |-> fx.seenIds, allMods |-> fx.allMods])
           i2 == fx.i + batchSize
           more == i2 < Len(fx.idsToFetch)
       IN  fx' = [fx EXCEPT
                    !.pc = IF more THEN "details" ELSE "lists",
                    !.seenIds = acc.seenIds, !.allMods = acc.allMods,
                    !.i = i2,
                    !.answered = IF more
                                 THEN [j \in 1..Len(BatchAt(fx.idsToFetch, i2)) |-> Pending]
                                 ELSE <<>>,
                    !.requested = IF more
                                  THEN fx.requested \o BatchAt(fx.idsToFetch, i2)
                                  ELSE fx.requested]

\* Promise.all over the curated lists settles; merge, final shuffle, return
FxListsSettled ==
    /\ UNCHANGED <<cacheVars, cxVars, mxVars, axVars, sxVars, appVars, persistVars>>
    /\ fx.pc = "lists"
    /\ \E l \in [1..3 -> ListReplies] :
          LET listResults == [k \in 1..3 |-> fetchFromListEndpoint(FxGame, l[k])]
              acc == MergeLists(listResults, [seenIds |-> fx.seenIds, allMods |-> fx.allMods])
          IN  IF ListsThrew(listResults)
              THEN \E e \in ListErrors(listResults) :
                      fx' = [fx EXCEPT !.pc = "threw", !.windows = <<>>, !.lists = l,
                                       !.error = e]
              ELSE \E shuffledMods \in shuffleArray(acc.allMods) :
                      fx' = [fx EXCEPT !.pc = "done", !.windows = <<>>, !.lists = l,
                                       !.seenIds = acc.seenIds, !.allMods = acc.allMods,
                                       !.mods = shuffledMods]

\* the caller takes the result; the next call may start
FxReturn ==
    /\ UNCHANGED <<cacheVars, cxVars, mxVars, axVars, sxVars, appVars, persistVars>>
    /\ fx.pc \in {"done", "threw"}
    /\ fx' = FxIdle

EmptyStore == [k \in {} |-> 0]

\* no merge made yet
\* CardStack after its first render with an empty queue: triggerSwipe holds
\* its dependencies [currentIndex, mods.length, isAnimating] and the
\* completeSwipe of that render
SxMounted ==
    [n |-> 0, isAnimating |-> FALSE, exitDirection |-> "", swipeInProgress |-> FALSE,
     trigger |-> [deps |-> <<0, 0, FALSE>>,
                  completeSwipe |-> [currentIndex |-> 0, mods |-> <<>>]],
     timers |-> <<>>, calls |-> <<>>]

\* an appendToCachedMods call that has not been made
AxNoCall ==
    [pc |-> "idle", newMods |-> <<>>, k |-> 0, putKeys |-> {}, waited |-> FALSE,
     failed |-> FALSE, rejected |-> FALSE]

AxIdle ==
    [started |-> FALSE, prior |-> {}, queue |-> <<>>,
     calls |-> [i \in 1..MaxAppends |-> AxNoCall]]

MxIdle == [n |-> 0, unseenCached |-> <<>>, unseenMods |-> <<>>, uniqueUnseen |-> <<>>]

\* no cache-service call made yet.  prior is what the stores held for the
\* game when the call was made.
CxIdle ==
    [n |-> 0, op |-> "none", game |-> "", batch |-> <<>>, outcome |-> "ok",
     rejected |-> FALSE, addedCount |-> 0, prior |-> [ids |-> {}, aged |-> FALSE]]

InitFetch ==
    /\ fx = FxIdle
    /\ modsStore = EmptyStore
    /\ metaStore = EmptyStore
    /\ now = StartTime
    /\ cx = CxIdle
    /\ mx = MxIdle
    /\ ax = AxIdle
    /\ sx = SxMounted
    /\ AppMounted
    /\ PersistMounted
    /\ remote = <<>>

NextFetch ==
    FxCall \/ FxPoolSettled \/ FxDetailReply \/ FxBatchDone \/ FxListsSettled \/ FxReturn

SpecFetch == InitFetch /\ [][NextFetch]_vars

(***************************************************************************)
(* Properties of fetchModsBulk (SpecFetch).                                *)
(***************************************************************************)
\* the ids the index windows that answered 2xx returned
SurvivorIds(w) == UNION {Range(w[k].ids) : k \in {j \in 1..Len(w) : w[j].kind = "ok"}}

WindowsFailed(w) == {k \in 1..Len(w) : w[k].kind # "ok"}

\* C9: when an index window fails (any of them, for any reason) the call goes
\* on: right after phase 1 the candidate pool is exactly the ids of the
\* surviving windows outside the exclusion set, the ids to fetch are drawn from
\* it, and a call that ends in an error ends in the error of a curated-list
\* endpoint, never in that of an index window.
C9_PartialIndexFailure ==
    /\ (fx.windows # <<>> /\ WindowsFailed(fx.windows) # {}) =>
          /\ fx.pc \in {"details", "lists"}
          /\ fx.pool = SurvivorIds(fx.windows) \ fx.excludeIds
          /\ Range(fx.idsToFetch) \subseteq fx.pool
          /\ Len(fx.idsToFetch) = Min(fx.count, Cardinality(fx.pool))
    /\ (fx.pc = "threw" /\ fx.failedWindows # {}) =>
          /\ fx.lists # <<>>
          /\ \E k \in 1..3 : /\ fx.lists[k].kind # "ok"
                             /\ fx.error = fetchFromListEndpoint(FxGame, fx.lists[k]).error

\* C9 witness: the 1w window failed, the other two answered, and the call
\* returned listings of the surviving windows
C9_Witness ==
    /\ fx.pc = "done"
    /\ fx.failedWindows = {2}
    /\ ModIds(fx.mods) \cap fx.pool # {}

AllAnswered == \A j \in 1..Len(fx.answered) : fx.answered[j].done

\* C10: a failed item request (non-2xx, network exception, unparsable body)
\* never ends the call: a call that throws throws the error of a curated-list
\* endpoint; every id that was selected is requested, in its batch, whatever
\* happened to the requests before it; every displayable, not yet accumulated
\* listing of a batch is accumulated when the batch resolves, stays
\* accumulated, and is in the returned array.
C10_ItemFailuresSkipped ==
    /\ [](fx.pc = "threw" =>
            /\ fx.lists # <<>>
            /\ \E k \in 1..3 : /\ fx.lists[k].kind # "ok"
                               /\ fx.error = fetchFromListEndpoint(FxGame, fx.lists[k]).error)
    /\ [](fx.pc \in {"lists", "done"} => fx.requested = fx.idsToFetch)
    /\ [][(fx.pc = "details" /\ AllAnswered) =>
            \A j \in 1..Len(fx.answered) :
                LET a == fx.answered[j]
                IN  (a.mod # <<>> /\ isValidMod(a.mod[1]) /\ a.mod[1].mod_id \notin fx.seenIds)
                        => a.mod[1] \in Range(fx'.allMods)]_vars
    /\ [][(fx.pc \in {"details", "lists"} /\ fx'.pc \in {"details", "lists", "done"})
            => Range(fx.allMods) \subseteq Range(fx'.allMods)]_vars
    /\ [](fx.pc = "done" => Range(fx.allMods) = Range(fx.mods))

\* C10 witness: a call of two batches returned although the first item request
\* failed: the second item of the same batch and the item of the second batch
\* are in the result, the failed one is not
C10_Witness ==
    /\ fx.pc = "done"
    /\ fx.itemFailed
    /\ Len(fx.idsToFetch) > batchSize
    /\ fx.idsToFetch[1] \notin ModIds(fx.mods)
    /\ fx.idsToFetch[2] \in ModIds(fx.mods)
    /\ fx.idsToFetch[batchSize + 1] \in ModIds(fx.mods)

\* C17: a call of fetchModsBulk that returns returns at most count listings,
\* with pairwise distinct ids.
C17_AtMostCount ==
    fx.pc = "done" =>
        /\ Len(fx.mods) <= fx.count
        /\ Cardinality(ModIds(fx.mods)) = Len(fx.mods)

\* C19: a non-2xx answer is classified by its status in the same way by
\* fetchUpdatedModIds and by fetchFromListEndpoint (401 authentication, 403
\* forbidden, 429 rate limit with the retry-after value, any other status a
\* transport error with the status), and a call of fetchModsBulk that throws
\* throws the classified error of a request that failed.
C19_ErrorsClassified ==
    /\ \A k \in 1..Len(fx.windows) :
          fx.windows[k].kind = "http" =>
              fetchUpdatedModIds(fx.windows[k]).error
                = fetchFromListEndpoint(FxGame,
                      [kind |-> "http", body |-> <<>>, status |-> fx.windows[k].status,
                       retryAfter |-> 60]).error
    /\ fx.pc = "threw" =>
          \E k \in 1..Len(fx.lists) :
              /\ fx.lists[k].kind # "ok"
              /\ fx.error = fetchFromListEndpoint(FxGame, fx.lists[k]).error

\* C22: within one fetchModsBulk call the item-detail batches run strictly
\* one after another: item requests are issued only when every item request
\* issued before has completed, at most batchSize of them at a time, so at
\* most batchSize (10) item requests are outstanding in any state.
C22_BatchesSequential ==
    /\ [](Cardinality({j \in 1..Len(fx.answered) : ~fx.answered[j].done}) <= batchSize)
    /\ [][Len(fx'.requested) > Len(fx.requested) =>
            /\ \A j \in 1..Len(fx.answered) : fx.answered[j].done
            /\ Len(fx'.requested) - Len(fx.requested) <= batchSize
            /\ Len(fx'.answered) = Len(fx'.requested) - Len(fx.requested)]_vars

\* C22 witness: the second batch of a call is out while the first has
\* completed: one of its requests is outstanding
C22_Witness ==
    /\ fx.pc = "details"
    /\ fx.i = batchSize
    /\ Len(fx.requested) > batchSize
    /\ \E j \in 1..Len(fx.answered) : ~fx.answered[j].done

C24_ItemRequestsFromPool ==
    /\ [](/\ Range(fx.requested) \subseteq fx.pool
          /\ Range(fx.requested) \cap fx.excludeIds = {}
          /\ Cardinality(Range(fx.requested)) = Len(fx.requested)
          /\ Len(fx.requested) <= fx.count)
    /\ [][fx.pc = "pool" => fx'.pool \subseteq SurvivorIds(fx'.windows)]_vars

\* C24 witness: an index window failed, an id the others returned is
\* excluded, the pool holds more than count ids, and count item requests
\* have been issued
C24_Witness ==
    /\ fx.pc = "lists"
    /\ fx.failedWindows # {}
    /\ fx.excludeIds # {}
    /\ Cardinality(fx.pool) > fx.count
    /\ Len(fx.requested) = fx.count
    /\ fx.count > 0

(***************************************************************************)
(* SpecCache: the cache service called with arbitrary batches.             *)
(***************************************************************************)
CxIds == {IdLo, IdLo + 1}

\* the batches handed to appendToCachedMods: displayable listings, with
\* repeated ids and two versions of each listing
CxMods == {GoodMod(id, FxGame, v) : id \in CxIds, v \in {1, 2}}

CxBatches == UNION {[1..n -> CxMods] : n \in 0..MaxBatchLen}

CxPrior(game) ==
    [ids |-> CachedIds(modsStore, game), aged |-> game \in DOMAIN metaStore]

CxAppend ==
    /\ cx.n < MaxWrites
    /\ \E game \in Games, batch \in CxBatches, outcome \in StorageOutcomes :
          LET r == appendToCachedMods(modsStore, game, batch, now, outcome)
          IN  /\ modsStore' = r.store
              /\ cx' = [n |-> cx.n + 1, op |-> "append", game |-> game, batch |-> batch,
                        outcome |-> outcome, rejected |-> r.rejected,
                        addedCount |-> r.addedCount, prior |-> CxPrior(game)]
    /\ UNCHANGED <<metaStore, now, fxVars, appVars, persistVars, mxVars, axVars, sxVars>>

CxSet ==
    /\ cx.n < MaxWrites
    /\ \E game \in Games, batch \in CxBatches, outcome \in StorageOutcomes :
          LET r == setCachedMods(modsStore, metaStore, game, batch, now, outcome)
          IN  /\ modsStore' = r.store
              /\ metaStore' = r.meta
              /\ cx' = [n |-> cx.n + 1, op |-> "set", game |-> game, batch |-> batch,
                        outcome |-> outcome, rejected |-> r.rejected, addedCount |-> 0,
                        prior |-> CxPrior(game)]
    /\ UNCHANGED <<now, fxVars, appVars, persistVars, mxVars, axVars, sxVars>>

CxClear ==
    /\ cx.n < MaxWrites
    /\ \E game \in Games, outcome \in StorageOutcomes :
          LET r == clearModCache(modsStore, metaStore, game, outcome)
          IN  /\ modsStore' = r.store
              /\ metaStore' = r.meta
              /\ cx' = [n |-> cx.n + 1, op |-> "clear", game |-> game, batch |-> <<>>,
                        outcome |-> outcome, rejected |-> r.rejected, addedCount |-> 0,
                        prior |-> CxPrior(game)]
    /\ UNCHANGED <<now, fxVars, appVars, persistVars, mxVars, axVars, sxVars>>

CxTick ==
    /\ now < StartTime + MaxTicks * TickMs
    /\ now' = now + TickMs
    /\ UNCHANGED <<modsStore, metaStore, cx, fxVars, appVars, persistVars, mxVars, axVars, sxVars>>

InitCache == InitFetch

NextCache == CxAppend \/ CxSet \/ CxClear \/ CxTick

SpecCache == InitCache /\ [][NextCache]_vars

(***************************************************************************)
(* Properties of the cache service (SpecCache).                            *)
(***************************************************************************)
BatchKeys(game, batch) == {getModCacheKey(game, id) : id \in ModIds(batch)}

\* the first element of batch with the given id
FirstWithId(batch, id) ==
    batch[CHOOSE i \in 1..Len(batch) :
            /\ batch[i].mod_id = id
            /\ \A j \in 1..(i - 1) : batch[j].mod_id # id]

\* C4: appendToCachedMods is insert-if-absent.  A write that succeeds leaves
\* every entry that was cached (of any catalog) as it was, record and
\* timestamp; it adds exactly the ids of the batch that were not cached, each
\* with the first record of the batch that has the id and the time of the
\* write; the count of the catalog becomes the number of distinct ids cached
\* before or in the batch, and the resolved addedCount is the growth.  Hence of
\* two overlapping batches the first one's records stay, and a batch written
\* again changes nothing.
C4_InsertIfAbsent ==
    [][(cx'.n = cx.n + 1 /\ cx'.op = "append" /\ cx'.outcome = "ok") =>
        LET game == cx'.game
            batch == cx'.batch
        IN  /\ \A k \in DOMAIN modsStore :
                   k \in DOMAIN modsStore' /\ modsStore'[k] = modsStore[k]
            /\ DOMAIN modsStore' = DOMAIN modsStore \cup BatchKeys(game, batch)
            /\ \A k \in BatchKeys(game, batch) \ DOMAIN modsStore :
                   /\ modsStore'[k].data = FirstWithId(batch, k[2])
                   /\ modsStore'[k].timestamp = now
                   /\ modsStore'[k].game = game
                   /\ modsStore'[k].mod_id = k[2]
            /\ Cardinality(GameKeys(modsStore', game))
                  = Cardinality(CachedIds(modsStore, game) \cup ModIds(batch))
            /\ cx'.addedCount = Cardinality(ModIds(batch) \ CachedIds(modsStore, game))
            /\ (cx.op = "append" /\ cx.outcome = "ok" /\ cx.game = game /\ cx.batch = batch)
                   => modsStore' = modsStore]_vars

\* C4 witness: a batch was written over a cache that held one of its ids with
\* another record and an earlier timestamp, and that entry is still the old one
C4_Witness ==
    /\ cx.op = "append" /\ cx.outcome = "ok" /\ Len(cx.batch) = 2
    /\ \E i \in 1..2 :
          LET k == getModCacheKey(cx.game, cx.batch[i].mod_id)
          IN  /\ k \in DOMAIN modsStore
              /\ modsStore[k].data # cx.batch[i]
              /\ modsStore[k].data.mod_id = cx.batch[i].mod_id
              /\ modsStore[k].timestamp < now
    /\ cx.addedCount = 1

\* C11: a bulk write by appendToCachedMods that succeeds creates or overwrites
\* the metadata record of the catalog: right after it getCacheAge of the
\* catalog is not null and is the time since that write, 0 minutes.
C11_WriteSetsMetadata ==
    [][(cx'.n = cx.n + 1 /\ cx'.op = "append" /\ cx'.outcome = "ok"
            /\ Len(cx'.batch) > 0) =>
          getCacheAge(metaStore', cx'.game, now', "ok") = <<0>>]_vars

\* C12: once clearModCache(X) has completed, and until the next call of the
\* service, getCachedModCount(X) is 0 and getCacheAge(X) is null, whatever
\* was cached for X and however much time passes.
C12_ClearedIsEmpty ==
    (cx.op = "clear" /\ cx.outcome = "ok") =>
        /\ getCachedModCount(modsStore, cx.game, "ok").count = 0
        /\ ~getCachedModCount(modsStore, cx.game, "ok").rejected
        /\ getCacheAge(metaStore, cx.game, now, "ok") = <<>>
        /\ getCachedMods(modsStore, cx.game, "ok").mods = <<>>

\* C12 witness: the catalog held listings and a metadata record when it was
\* cleared, and time has passed since
C12_Witness ==
    /\ cx.op = "clear" /\ cx.outcome = "ok"
    /\ cx.prior.ids # {} /\ cx.prior.aged
    /\ now > StartTime
    /\ getCachedModCount(modsStore, cx.game, "ok").count = 0

\* C13: clearModCache(X), whether it succeeds or fails, leaves every entry
\* and the metadata record of every other catalog as they were and adds
\* nothing, also when both catalogs hold listings with the same item id.
C13_ClearLeavesOtherCatalogs ==
    [][(cx'.n = cx.n + 1 /\ cx'.op = "clear") =>
          /\ \A k \in DOMAIN modsStore :
                modsStore[k].game # cx'.game =>
                    k \in DOMAIN modsStore' /\ modsStore'[k] = modsStore[k]
          /\ DOMAIN modsStore' \subseteq DOMAIN modsStore
          /\ \A g \in DOMAIN metaStore :
                g # cx'.game => g \in DOMAIN metaStore' /\ metaStore'[g] = metaStore[g]
          /\ DOMAIN metaStore' \subseteq DOMAIN metaStore]_vars

\* C13 witness: a catalog that held listings and metadata was cleared, and
\* another catalog still holds a listing with an id the cleared one held,
\* and its metadata
C13_Witness ==
    /\ cx.op = "clear" /\ cx.outcome = "ok"
    /\ cx.prior.ids # {} /\ cx.prior.aged
    /\ \E g \in Games \ {cx.game} :
          /\ CachedIds(modsStore, g) \cap cx.prior.ids # {}
          /\ g \in DOMAIN metaStore

\* C14: the promise clearModCache returns never rejects.
C14_ClearNeverRejects == cx.op = "clear" => ~cx.rejected

(***************************************************************************)
(* SpecPersist: the approved list and the seen set across page loads       *)
(* (App.tsx 29-30, 50-80, 260-271).  A page load renders the component     *)
(* with the empty initial state ("mounted"); its effects run in one pass:  *)
(* the initialization effect reads localStorage and queues the state       *)
(* updates, the two save effects store the state of that render.  The      *)
(* queued updates are rendered in a later task ("loaded" until then).  A   *)
(* click is rendered, and its effects run, before the next event           *)
(* ("changed" until then).  The page can be reloaded or closed between     *)
(* tasks.                                                                  *)
(***************************************************************************)
\* page loads of a run
MaxSessions == 3

\* the cards the user decides on
PersistMods == {GoodMod(id, FxGame, 1) : id \in CxIds}

\* what the initialization effect hands to setSeenModIds and setApprovedMods:
\* <<>> when it makes no call
loadPersisted(storage) ==
    [seen |-> IF storage.seenModIds.kind = "null" THEN <<>>
              ELSE <<NewSet(JSON_parse(storage.seenModIds))>>,
     approved |-> IF storage.approvedMods.kind = "null" THEN <<>>
                  ELSE <<JSON_parse(storage.approvedMods)>>]

\* the effects of the first render
MountEffects ==
    /\ boot.pc = "mounted"
    /\ \E pending \in {loadPersisted(localStorage)} :
          boot' = [boot EXCEPT !.pending = pending,
                               !.pc = IF pending.seen = <<>> /\ pending.approved = <<>>
                                      THEN "ready" ELSE "loaded"]
    /\ seenModIdsRef' = seenModIds
    /\ localStorage' = SavedStorage(seenModIds, approvedMods)
    /\ UNCHANGED <<apiKey, selectedGame, view, mods, approvedMods, seenModIds,
                   isLoading, isBulkLoading, loadProgress, error, cachedCount,
                   cacheAge, lastAutoRefresh, isAutoRefreshing, currentIndex,
                   taskVars, remote, fxVars, cxVars, mxVars, axVars, sxVars, cacheVars>>

\* the render of the state updates the initialization effect queued, and the
\* save effects of the values that changed
RenderLoaded ==
    /\ boot.pc = "loaded"
    /\ seenModIds' = IF boot.pending.seen = <<>> THEN seenModIds ELSE boot.pending.seen[1]
    /\ approvedMods' = IF boot.pending.approved = <<>> THEN approvedMods
                       ELSE boot.pending.approved[1]
    /\ seenModIdsRef' = seenModIds'
    /\ localStorage' =
          [seenModIds |-> IF boot.pending.seen = <<>> THEN localStorage.seenModIds
                          ELSE JSON_stringify(ArrayFrom(seenModIds')),
           approvedMods |-> IF boot.pending.approved = <<>> THEN localStorage.approvedMods
                            ELSE JSON_stringify(approvedMods')]
    /\ boot' = [boot EXCEPT !.pc = "ready", !.pending = [seen |-> <<>>, approved |-> <<>>]]
    /\ UNCHANGED <<apiKey, selectedGame, view, mods, isLoading, isBulkLoading,
                   loadProgress, error, cachedCount, cacheAge, lastAutoRefresh,
                   isAutoRefreshing, currentIndex, taskVars, remote, fxVars, cxVars, mxVars, axVars, sxVars,
                   cacheVars>>

\* handleApprove without its setSeenModIds call
handleApprove_ListOnly ==
    /\ boot.pc = "ready"
    /\ \E mod \in PersistMods :
          /\ mod.mod_id \notin seenModIds
          /\ approvedMods' = Append(approvedMods, mod)
          /\ seenModIds' = seenModIds
    /\ boot' = [boot EXCEPT !.pc = "changed",
                            !.decided = [seen |-> seenModIds', approved |-> approvedMods']]
    /\ UNCHANGED <<apiKey, selectedGame, view, mods, seenModIdsRef, isLoading,
                   isBulkLoading, loadProgress, error, cachedCount, cacheAge,
                   lastAutoRefresh, isAutoRefreshing, currentIndex, taskVars, remote,
                   localStorage, fxVars, cxVars, mxVars, axVars, sxVars, cacheVars>>

\* handleApprove(mod), for a card not decided before
handleApprove ==
    /\ boot.pc = "ready"
    /\ \E mod \in PersistMods :
          /\ mod.mod_id \notin seenModIds
          /\ approvedMods' = Append(approvedMods, mod)
          /\ seenModIds' = seenModIds \cup {mod.mod_id}
    /\ boot' = [boot EXCEPT !.pc = "changed",
                            !.decided = [seen |-> seenModIds', approved |-> approvedMods']]
    /\ UNCHANGED <<apiKey, selectedGame, view, mods, seenModIdsRef, isLoading,
                   isBulkLoading, loadProgress, error, cachedCount, cacheAge,
                   lastAutoRefresh, isAutoRefreshing, currentIndex, taskVars, remote,
                   localStorage, fxVars, cxVars, mxVars, axVars, sxVars, cacheVars>>

\* handleReject(mod), for a card not decided before
handleReject ==
    /\ boot.pc = "ready"
    /\ \E mod \in PersistMods :
          /\ mod.mod_id \notin seenModIds
          /\ seenModIds' = seenModIds \cup {mod.mod_id}
    /\ boot' = [boot EXCEPT !.pc = "changed",
                            !.decided = [seen |-> seenModIds', approved |-> approvedMods]]
    /\ UNCHANGED <<apiKey, selectedGame, view, mods, approvedMods, seenModIdsRef,
                   isLoading, isBulkLoading, loadProgress, error, cachedCount,
                   cacheAge, lastAutoRefresh, isAutoRefreshing, currentIndex,
                   taskVars, remote, localStorage, fxVars, cxVars, mxVars, axVars, sxVars, cacheVars>>

\* handleRemoveApproved(modId): the trash button of a listed mod
handleRemoveApproved ==
    /\ boot.pc = "ready"
    /\ \E modId \in ModIds(approvedMods) :
          approvedMods' = SelectSeq(approvedMods, LAMBDA m : m.mod_id # modId)
    /\ boot' = [boot EXCEPT !.pc = "changed",
                            !.decided = [seen |-> seenModIds, approved |-> approvedMods']]
    /\ UNCHANGED <<apiKey, selectedGame, view, mods, seenModIds, seenModIdsRef,
                   isLoading, isBulkLoading, loadProgress, error, cachedCount,
                   cacheAge, lastAutoRefresh, isAutoRefreshing, currentIndex,
                   taskVars, remote, localStorage, fxVars, cxVars, mxVars, axVars, sxVars, cacheVars>>

\* the save effects after the render of a click
SaveEffects ==
    /\ boot.pc = "changed"
    /\ seenModIdsRef' = seenModIds
    /\ localStorage' = SavedStorage(seenModIds, approvedMods)
    /\ boot' = [boot EXCEPT !.pc = "ready"]
    /\ UNCHANGED <<apiKey, selectedGame, view, mods, approvedMods, seenModIds,
                   isLoading, isBulkLoading, loadProgress, error, cachedCount,
                   cacheAge, lastAutoRefresh, isAutoRefreshing, currentIndex,
                   taskVars, remote, fxVars, cxVars, mxVars, axVars, sxVars, cacheVars>>

\* the page is reloaded, or closed and opened again: React state starts from
\* its initial values, localStorage stays
Reload ==
    /\ boot.pc \in {"mounted", "loaded", "ready"}
    /\ boot.sessions < MaxSessions
    /\ approvedMods' = <<>>
    /\ seenModIds' = {}
    /\ seenModIdsRef' = {}
    /\ boot' = [boot EXCEPT !.pc = "mounted",
                            !.pending = [seen |-> <<>>, approved |-> <<>>],
                            !.sessions = @ + 1]
    /\ UNCHANGED <<apiKey, selectedGame, view, mods, isLoading, isBulkLoading,
                   loadProgress, error, cachedCount, cacheAge, lastAutoRefresh,
                   isAutoRefreshing, currentIndex, taskVars, remote, localStorage,
                   fxVars, cxVars, mxVars, axVars, sxVars, cacheVars>>

\* the first page load in a browser without stored decisions
InitPersist ==
    /\ fx = FxIdle
    /\ cx = CxIdle
    /\ mx = MxIdle
    /\ ax = AxIdle
    /\ sx = SxMounted
    /\ modsStore = EmptyStore
    /\ metaStore = EmptyStore
    /\ now = StartTime
    /\ AppMounted
    /\ remote = <<>>
    /\ localStorage = [seenModIds |-> NoItem, approvedMods |-> NoItem]
    /\ boot = [BootFirst EXCEPT !.pc = "mounted"]

NextPersist ==
    \/ MountEffects
    \/ RenderLoaded
    \/ handleApprove
    \/ handleReject
    \/ handleRemoveApproved
    \/ SaveEffects
    \/ Reload

SpecPersist == InitPersist /\ [][NextPersist]_vars

(***************************************************************************)
(* Properties of the persisted decisions (SpecPersist).                    *)
(***************************************************************************)
\* C20: the approved list and the seen set survive a restart: once a page
\* load has finished and no click is being rendered, localStorage holds the
\* in-memory approved list and seen set, and these are the decisions the user
\* has made so far, in this session and in the sessions before it (the save
\* effects that run on mount with the empty initial state lose nothing).
C20_DecisionsSurviveRestart ==
    boot.pc = "ready" =>
        /\ localStorage = SavedStorage(seenModIds, approvedMods)
        /\ seenModIds = boot.decided.seen
        /\ approvedMods = boot.decided.approved

(***************************************************************************)
(* Spec: the application.  The user starts with an API key (the demo mode  *)
(* without a key, which returns mock listings, is not part of the model),  *)
(* swipes, refreshes, resets and logs out; loadModsBulk,                   *)
(* checkAndAutoRefresh and handleResetProgress run as asynchronous calls   *)
(* that advance one await at a time.                                       *)
(***************************************************************************)
\* storage failures explored per run
MaxFaults == 1

\* exceptional events (storage failure, clock step, logout, reset) explored per run
MaxRare == 1

\* the ids the remote service knows
RemoteFirst == 301

RemoteIds == {RemoteFirst, RemoteFirst + 1}

ListOnlyId == RemoteFirst + 2

\* the ids cached at the start: FirstCached, FirstCached + 1, ...
FirstCached == 101

\* number of listings an earlier session left in the cache
CacheSizes == {0, LOW_QUEUE_THRESHOLD + 5, BULK_FETCH_COUNT \div 2}

InitialStore(k) ==
    [key \in {getModCacheKey(FxGame, id) : id \in FirstCached..(FirstCached + k - 1)} |->
        CacheEntry(FxGame, GoodMod(key[2], FxGame, 1), StartTime - TickMs)]

OkWindow(q) == [kind |-> "ok", ids |-> q, status |-> 200]

HttpWindow(st) == [kind |-> "http", ids |-> <<>>, status |-> st]

DetailReply(id, a) ==
    [kind |-> a.kind, body |-> RawMod(id, a.shape, 1),
     status |-> IF a.kind = "ok" THEN 200 ELSE 404]

OkList(b) == [kind |-> "ok", body |-> b, status |-> 200, retryAfter |-> 0]

GoodItem == [kind |-> "ok", shape |-> GoodShape]

HiddenItem == [kind |-> "ok", shape |-> HiddenShape]

MissingItem == [kind |-> "http", shape |-> GoodShape]

NoLists == <<OkList(<<>>), OkList(<<>>), OkList(<<>>)>>

\* What the remote service answers to the fetchModsBulk calls of a run: w the
\* three index windows, d the item endpoint per id, l the three curated lists.
\*   1  the 1w window fails, one item is displayable and one hidden, the
\*      lists add a displayable listing, a hidden one and a newer record of
\*      the fetched one
\*   2  every window is rate limited and the lists are empty
\*   3  the items are displayable or missing (404), a curated list is rate limited
RemoteScenarios ==
    { [w |-> <<OkWindow(<<RemoteFirst + 1>>), HttpWindow(500),
               OkWindow(<<RemoteFirst, RemoteFirst>>)>>,
       d |-> (RemoteFirst :> GoodItem) @@ (RemoteFirst + 1 :> HiddenItem),
       l |-> <<OkList(<<RawMod(ListOnlyId, GoodShape, 2),
                        RawMod(RemoteFirst + 1, HiddenShape, 2)>>),
               OkList(<<RawMod(RemoteFirst, GoodShape, 2)>>), OkList(<<>>)>>],
      [w |-> <<HttpWindow(429), HttpWindow(429), HttpWindow(429)>>,
       d |-> (RemoteFirst :> GoodItem) @@ (RemoteFirst + 1 :> GoodItem),
       l |-> NoLists],
      [w |-> <<OkWindow(<<RemoteFirst, RemoteFirst + 1>>), OkWindow(<<>>), OkWindow(<<>>)>>,
       d |-> (RemoteFirst :> GoodItem) @@ (RemoteFirst + 1 :> MissingItem),
       l |-> <<OkList(<<>>),
               [kind |-> "http", body |-> <<>>, status |-> 429, retryAfter |-> 60],
               OkList(<<>>)>>] }

\* Phase 2 of fetchModsBulk: batch after batch
RECURSIVE DetailBatches(_, _, _, _, _)
DetailBatches(idsToFetch, i, d, game, acc) ==
    IF i >= Len(idsToFetch) THEN acc
    ELSE LET batch == BatchAt(idsToFetch, i)
             results == [k \in 1..Len(batch) |->
                            fetchModDetails(game, DetailReply(batch[k], d[batch[k]]))]
         IN  DetailBatches(idsToFetch, i + batchSize, d, game, ProcessDetails(results, acc))

\* an item request that rejects rejects the Promise.all of its batch
DetailsThrew(idsToFetch, d, game) ==
    \E k \in 1..Len(idsToFetch) :
        fetchModDetails(game, DetailReply(idsToFetch[k], d[idsToFetch[k]])).threw

\* fetchModsBulk with a truthy apiKey, start to end: the results it may
\* resolve with, or the errors it may throw, on the replies w, d, l
fetchModsBulk(game, count, excludeIds, w, d, l) ==
    UNION {
        IF PoolThrew(poolResults)
        THEN {[threw |-> TRUE, mods |-> <<>>,
               error |-> poolResults[CHOOSE k \in 1..3 : poolResults[k].threw].error]}
        ELSE UNION {
               IF DetailsThrew(idsToFetch, d, game)
               THEN {[threw |-> TRUE, mods |-> <<>>,
                      error |-> [text |-> "item request failed", num |-> 0]]}
               ELSE IF ListsThrew(listResults)
               THEN {[threw |-> TRUE, mods |-> <<>>, error |-> e] :
                        e \in ListErrors(listResults)}
               ELSE {[threw |-> FALSE, mods |-> shuffledMods, error |-> NoError] :
                        shuffledMods \in shuffleArray(
                            MergeLists(listResults,
                                DetailBatches(idsToFetch, 0, d, game,
                                    [seenIds |-> excludeIds, allMods |-> <<>>])).allMods)}
               : idsToFetch \in
                    {Take(p, count) :
                        p \in shuffleArray(Ascending(PoolIds(poolResults, excludeIds),
                                                     IdLo, IdHi))} }
        : poolResults \in {[k \in 1..3 |-> fetchUpdatedModIds(w[k])]},
          listResults \in {[k \in 1..3 |-> fetchFromListEndpoint(game, l[k])]} }

\* the value at the last position of s that has the id
LastWithId(s, id) ==
    s[CHOOSE i \in 1..Len(s) :
        /\ s[i].mod_id = id
        /\ \A j \in (i + 1)..Len(s) : s[j].mod_id # id]

\* Array.from(new Map(s.map(m => [m.mod_id, m])).values()): a key keeps the
\* position of its first entry and the value of its last
UniqueById(s) ==
    CHOOSE result \in
        {[k \in 1..Len(firsts) |-> LastWithId(all, all[firsts[k]].mod_id)] :
            all \in {s},
            firsts \in {SelectSeq([i \in 1..Len(s) |-> i],
                                  LAMBDA i : \A j \in 1..(i - 1) : s[j].mod_id # s[i].mod_id)}} :
        TRUE

\* the rejection of a storage request or transaction (a DOMException)
StorageError == [text |-> "storage request failed", num |-> 0]

NoNewMods == [text |-> "No new mods found. You may have seen most available mods!", num |-> 0]

\* the outcomes of a storage call the run may still explore
Outcomes ==
    IF used.faults < MaxFaults /\ used.rare < MaxRare THEN StorageOutcomes ELSE {"ok"}

\* the outcomes of the clearModCache call of a reset: the reset is the
\* exceptional event of its run, and its own storage call may fail
ResetOutcomes ==
    IF used.faults < MaxFaults THEN StorageOutcomes ELSE {"ok"}

Charge(outcome) ==
    IF outcome = "ok" THEN used
    ELSE [used EXCEPT !.faults = @ + 1, !.rare = @ + 1]

\* the lowest free foreground slot, if any
FreeSlot ==
    {i \in UserSlots : /\ loads[i].pc = "idle"
                       /\ \A j \in UserSlots : j < i => loads[j].pc # "idle"}

NotInQueue_All(listings, currentIds) == listings

\* the updater of setMods(prev => ...): the listings whose ids are not among
\* currentIds, the ids of prev
NotInQueue(listings, currentIds) ==
    SelectSeq(listings, LAMBDA m : m.mod_id \notin currentIds)

\* setMods(newMods), after which CardStack resets its index; ids are the ids
\* this call puts into the queue
Deliver(newMods, ids, kind, h) ==
    /\ mods' = newMods
    /\ currentIndex' = 0
    /\ hist' = [h EXCEPT !.handed = @ \cup ids,
                         !.twice = @ \cup (ids \cap h.handed),
                         !.lastIds = ids,
                         !.lastSeen = seenModIds,
                         !.lastKind = kind]

\* loadModsBulk: unseenCached.length >= BULK_FETCH_COUNT / 2 && !isBackground
UseCacheOnly_AtLowQueueThreshold(unseenCached, isBackground) ==
    Len(unseenCached) >= LOW_QUEUE_THRESHOLD

UseCacheOnly(unseenCached, isBackground) ==
    2 * Len(unseenCached) >= BULK_FETCH_COUNT /\ ~isBackground

\* loadModsBulk up to its first await
loadModsBulk(i, key, game, isBackground) ==
    /\ isLoading' = (isLoading \/ ~isBackground)
    /\ isBulkLoading' = TRUE
    /\ error' = NoError
    /\ loads' = [loads EXCEPT ![i] =
                    [LoadIdle EXCEPT !.pc = "read", !.isBackground = isBackground,
                                     !.key = key, !.game = game,
                                     !.currentSeenIds = seenModIdsRef]]

\* the finally block of loadModsBulk and, for the call checkAndAutoRefresh
\* awaits, the finally block of checkAndAutoRefresh
Finally(i) ==
    /\ isLoading' = FALSE
    /\ isBulkLoading' = FALSE
    /\ loadProgress' = ""
    /\ loads' = [loads EXCEPT ![i] = LoadIdle]
    /\ IF i = AutoSlot
       THEN isAutoRefreshing' = FALSE /\ autoCheck' = AutoIdle
       ELSE UNCHANGED <<isAutoRefreshing, autoCheck>>

\* the catch block of loadModsBulk, then the finally block
Catch_NoCleanup(i, e) ==
    /\ error' = e
    /\ loads' = [loads EXCEPT ![i] = LoadIdle]
    /\ UNCHANGED <<isLoading, isBulkLoading, loadProgress>>
    /\ IF i = AutoSlot
       THEN isAutoRefreshing' = FALSE /\ autoCheck' = AutoIdle
       ELSE UNCHANGED <<isAutoRefreshing, autoCheck>>

Catch(i, e) ==
    /\ error' = e
    /\ Finally(i)

Init ==
    /\ fx = FxIdle
    /\ cx = CxIdle
    /\ mx = MxIdle
    /\ ax = AxIdle
    /\ sx = SxMounted
    /\ \E k \in CacheSizes : modsStore = InitialStore(k)
    /\ metaStore = EmptyStore
    /\ now = StartTime
    /\ AppMounted
    /\ PersistMounted
    /\ remote \in RemoteScenarios

\* the API key the user types into the landing page
EnteredKey == "key"

\* the catalogs a start may choose.  The runs explored keep the preselected
\* catalog on the first start and choose freely on a start after a logout.
StartGames == IF used.logouts > 0 THEN Games ELSE {selectedGame}

\* LandingPage calls onStart
handleStart ==
    /\ Flushed
    /\ view = "landing"
    /\ used.starts < MaxStarts
    /\ used' = [used EXCEPT !.starts = @ + 1]
    /\ \E i \in FreeSlot, game \in StartGames :
          /\ apiKey' = EnteredKey
          /\ selectedGame' = game
          /\ view' = "swiping"
          /\ loadModsBulk(i, EnteredKey, game, FALSE)
    /\ UNCHANGED <<mods, approvedMods, seenModIds, seenModIdsRef, loadProgress,
                   cachedCount, cacheAge, lastAutoRefresh, isAutoRefreshing,
                   currentIndex, effectDeps, autoCheck, resetTask, hist,
                   fxVars, cxVars, mxVars, axVars, sxVars, persistVars, cacheVars, remote>>

\* the refresh button of the header
RefreshButton ==
    /\ Flushed
    /\ view # "landing"
    /\ ~isBulkLoading
    /\ apiKey # ""
    /\ used.starts < MaxStarts
    /\ used' = [used EXCEPT !.starts = @ + 1]
    /\ \E i \in FreeSlot : loadModsBulk(i, apiKey, selectedGame, FALSE)
    /\ UNCHANGED <<apiKey, selectedGame, view, mods, approvedMods, seenModIds,
                   seenModIdsRef, loadProgress, cachedCount, cacheAge,
                   lastAutoRefresh, isAutoRefreshing, currentIndex, effectDeps,
                   autoCheck, resetTask, hist, fxVars, cxVars, mxVars, axVars, sxVars, persistVars, cacheVars, remote>>

\* the 'Load More Mods' button CardStack shows when the queue is depleted
LoadMoreButton ==
    /\ Flushed
    /\ view = "swiping"
    /\ ~(isLoading /\ ~isBulkLoading)
    /\ currentIndex >= Len(mods)
    /\ apiKey # ""
    /\ used.starts < MaxStarts
    /\ used' = [used EXCEPT !.starts = @ + 1]
    /\ currentIndex' = 0
    /\ \E i \in FreeSlot : loadModsBulk(i, apiKey, selectedGame, FALSE)
    /\ UNCHANGED <<apiKey, selectedGame, view, mods, approvedMods, seenModIds,
                   seenModIdsRef, loadProgress, cachedCount, cacheAge,
                   lastAutoRefresh, isAutoRefreshing, effectDeps,
                   autoCheck, resetTask, hist, fxVars, cxVars, mxVars, axVars, sxVars, persistVars, cacheVars, remote>>

\* completeSwipe on the top card: handleReject ("left") or handleApprove ("right")
Swipe ==
    /\ Flushed
    /\ view = "swiping"
    /\ ~(isLoading /\ ~isBulkLoading)
    /\ currentIndex < Len(mods)
    /\ used.swipes < MaxSwipes
    /\ \E direction \in {"left", "right"} :
          LET currentMod == mods[currentIndex + 1]
          IN  /\ approvedMods' = IF direction = "right"
                                 THEN Append(approvedMods, currentMod)
                                 ELSE approvedMods
              /\ seenModIds' = seenModIds \cup {currentMod.mod_id}
    /\ currentIndex' = currentIndex + 1
    /\ used' = [used EXCEPT !.swipes = @ + 1]
    /\ UNCHANGED <<apiKey, selectedGame, view, mods, seenModIdsRef, isLoading,
                   isBulkLoading, loadProgress, error, cachedCount, cacheAge,
                   lastAutoRefresh, isAutoRefreshing, effectDeps, loads,
                   autoCheck, resetTask, hist, fxVars, cxVars, mxVars, axVars, sxVars, persistVars, cacheVars, remote>>

\* the logout button; CardStack unmounts
Logout ==
    /\ Flushed
    /\ view # "landing"
    /\ used.logouts < MaxLogouts
    /\ used.rare < MaxRare
    /\ used' = [used EXCEPT !.logouts = @ + 1, !.rare = @ + 1]
    /\ apiKey' = ""
    /\ view' = "landing"
    /\ currentIndex' = 0
    /\ UNCHANGED <<selectedGame, mods, approvedMods, seenModIds, seenModIdsRef,
                   isLoading, isBulkLoading, loadProgress, error, cachedCount,
                   cacheAge, lastAutoRefresh, isAutoRefreshing, effectDeps, loads,
                   autoCheck, resetTask, hist, fxVars, cxVars, mxVars, axVars, sxVars, persistVars, cacheVars, remote>>

\* time passes
Tick ==
    /\ now < StartTime + MaxTicks * TickMs
    /\ used.rare < MaxRare
    /\ now' = now + TickMs
    /\ used' = [used EXCEPT !.rare = @ + 1]
    /\ UNCHANGED <<modsStore, metaStore, stateVars, effectDeps, loads, autoCheck,
                   resetTask, hist, remote, fxVars, cxVars, mxVars, axVars, sxVars, persistVars>>

\* the cooldown check of checkAndAutoRefresh: the early return is not taken
CooldownOver_Always(t, last) == TRUE
CooldownOver(t, last) == ~(t - last < AUTO_REFRESH_COOLDOWN)

\* After a render whose state changed: the effect that keeps seenModIdsRef in
\* sync and saves the seen set, the effect that saves the approved list, then
\* the auto-refresh effect (checkAndAutoRefresh up to its await)
RunEffects ==
    /\ ~Flushed
    /\ seenModIdsRef' = seenModIds
    /\ localStorage' = SavedStorage(seenModIds, approvedMods)
    /\ UNCHANGED boot
    /\ effectDeps' = Deps
    /\ IF /\ effectDeps # Deps
          /\ ~(\/ apiKey = ""
               \/ view # "swiping"
               \/ isLoading
               \/ isBulkLoading
               \/ isAutoRefreshing
               \/ QueueRemaining >= LOW_QUEUE_THRESHOLD)
          /\ CooldownOver(now, lastAutoRefresh)
       THEN /\ isAutoRefreshing' = TRUE
            /\ lastAutoRefresh' = now
            /\ autoCheck' = [pc |-> "read", key |-> apiKey, game |-> selectedGame,
                             seenIds |-> seenModIds, unseenAtRead |-> 0]
       ELSE UNCHANGED <<isAutoRefreshing, lastAutoRefresh, autoCheck>>
    /\ UNCHANGED <<apiKey, selectedGame, view, mods, approvedMods, seenModIds,
                   isLoading, isBulkLoading, loadProgress, error, cachedCount,
                   cacheAge, currentIndex, loads, resetTask, hist, used,
                   fxVars, cxVars, mxVars, axVars, sxVars, cacheVars, remote>>

\* checkAndAutoRefresh: getUnseenCachedMods resolves or rejects
AutoReadDone ==
    /\ Flushed
    /\ autoCheck.pc = "read"
    /\ \E outcome \in Outcomes :
       \E r \in {getCachedMods(modsStore, autoCheck.game, outcome)} :
       \E unseenFromCache \in {filterUnseenMods(r.mods, autoCheck.seenIds)} :
       \E currentIds \in {ModIds(mods)} :
       \E newMods \in {NotInQueue(unseenFromCache, currentIds)} :
       \E added \in {Take(newMods, SPLICE_LIMIT)} :
              /\ used' = Charge(outcome)
              /\ IF r.rejected
                 THEN /\ isAutoRefreshing' = FALSE
                      /\ autoCheck' = AutoIdle
                      /\ UNCHANGED <<mods, currentIndex, hist, isLoading, isBulkLoading,
                                     error, loads>>
                 ELSE IF Len(unseenFromCache) >= LOW_QUEUE_THRESHOLD
                 THEN /\ Deliver(mods \o added, ModIds(added), "splice", hist)
                      /\ isAutoRefreshing' = FALSE
                      /\ autoCheck' = AutoIdle
                      /\ UNCHANGED <<isLoading, isBulkLoading, error, loads>>
                 ELSE /\ loadModsBulk(AutoSlot, autoCheck.key, autoCheck.game, TRUE)
                      /\ autoCheck' = [autoCheck EXCEPT !.pc = "load",
                                                        !.unseenAtRead = Len(unseenFromCache)]
                      /\ UNCHANGED <<mods, currentIndex, hist, isAutoRefreshing>>
    /\ UNCHANGED <<apiKey, selectedGame, view, approvedMods, seenModIds, seenModIdsRef,
                   loadProgress, cachedCount, cacheAge, lastAutoRefresh, effectDeps,
                   resetTask, fxVars, cxVars, mxVars, axVars, sxVars, persistVars, cacheVars, remote>>

\* loadModsBulk: getCachedMods resolves or rejects
LoadReadDone ==
    /\ Flushed
    /\ \E i \in Slots, outcome \in Outcomes :
          /\ loads[i].pc = "read"
          /\ \E t \in {loads[i]} :
             \E r \in {getCachedMods(modsStore, t.game, outcome)} :
             \E cachedMods \in {r.mods} :
             \E unseenCached \in {filterUnseenMods(cachedMods, t.currentSeenIds)} :
                 /\ used' = Charge(outcome)
                 /\ IF r.rejected
                    THEN /\ Catch(i, StorageError)
                         /\ UNCHANGED <<mods, currentIndex, hist>>
                    ELSE IF UseCacheOnly(unseenCached, t.isBackground)
                    THEN /\ Deliver(unseenCached, ModIds(unseenCached), "replace", hist)
                         /\ Finally(i)
                         /\ UNCHANGED error
                    ELSE /\ loads' = [loads EXCEPT ![i] =
                                        [t EXCEPT !.pc = "net",
                                                  !.unseenCached = unseenCached,
                                                  !.excludeIds = t.currentSeenIds
                                                                   \cup ModIds(cachedMods),
                                                  !.remote = TRUE,
                                                  !.unseenAtRead = Len(unseenCached)]]
                         /\ loadProgress' = "running"
                         /\ UNCHANGED <<mods, currentIndex, hist, isLoading, isBulkLoading,
                                        error, isAutoRefreshing, autoCheck>>
    /\ UNCHANGED <<apiKey, selectedGame, view, approvedMods, seenModIds, seenModIdsRef,
                   cachedCount, cacheAge, lastAutoRefresh, effectDeps, resetTask,
                   fxVars, cxVars, mxVars, axVars, sxVars, persistVars, cacheVars, remote>>

\* fetchModsBulk reports progress through onProgress.  The model tells null,
\* "running" and "complete" apart, so a report only shows after the finally
\* block of another call has reset the progress
LoadProgress ==
    /\ Flushed
    /\ \E i \in Slots : loads[i].pc = "net"
    /\ loadProgress = ""
    /\ loadProgress' = "running"
    /\ UNCHANGED <<apiKey, selectedGame, view, mods, approvedMods, seenModIds,
                   seenModIdsRef, isLoading, isBulkLoading, error, cachedCount,
                   cacheAge, lastAutoRefresh, isAutoRefreshing, currentIndex,
                   taskVars, fxVars, cxVars, mxVars, axVars, sxVars, persistVars, cacheVars, remote>>

AfterWrite_Replace(i, response, h) ==
    \E t \in {loads[i]} :
    \E unseenMods \in {filterUnseenMods(response, t.currentSeenIds)} :
    \E uniqueUnseen \in {UniqueById(t.unseenCached \o unseenMods)} :
        /\ Deliver(uniqueUnseen, ModIds(uniqueUnseen), "replace", h)
        /\ loads' = [loads EXCEPT ![i] = [t EXCEPT !.pc = "stats", !.response = response]]

\* the rest of the try block after the cache write: filter, setMods, and on to
\* the cache statistics
AfterWrite(i, response, h) ==
    \E t \in {loads[i]} :
    \E unseenMods \in {filterUnseenMods(response, t.currentSeenIds)} :
    \E uniqueUnseen \in {UniqueById(t.unseenCached \o unseenMods)} :
    \E currentIds \in {ModIds(mods)} :
    \E newMods \in {NotInQueue(unseenMods, currentIds)} :
        /\ IF ~t.isBackground
           THEN Deliver(uniqueUnseen, ModIds(uniqueUnseen), "replace", h)
           ELSE Deliver(mods \o newMods, ModIds(newMods), "append", h)
        /\ loads' = [loads EXCEPT ![i] = [t EXCEPT !.pc = "stats", !.response = response]]

\* loadModsBulk: fetchModsBulk resolves or throws
LoadNetDone ==
    /\ Flushed
    /\ \E i \in Slots :
          /\ loads[i].pc = "net"
          /\ \E response \in fetchModsBulk(loads[i].game, BULK_FETCH_COUNT,
                                        loads[i].excludeIds,
                                        remote.w, remote.d, remote.l) :
                IF response.threw
                THEN /\ Catch(i, response.error)
                     /\ hist' = [hist EXCEPT !.lastNet = now]
                     /\ UNCHANGED <<mods, currentIndex>>
                ELSE /\ loadProgress' = "complete"
                     /\ IF Len(response.mods) > 0
                        THEN /\ loads' = [loads EXCEPT ![i].pc = "write",
                                                       ![i].response = response.mods]
                             /\ hist' = [hist EXCEPT !.lastNet = now]
                             /\ UNCHANGED <<mods, currentIndex>>
                        ELSE AfterWrite(i, response.mods, [hist EXCEPT !.lastNet = now])
                     /\ UNCHANGED <<isLoading, isBulkLoading, error, isAutoRefreshing,
                                    autoCheck>>
    /\ UNCHANGED <<apiKey, selectedGame, view, approvedMods, seenModIds, seenModIdsRef,
                   cachedCount, cacheAge, lastAutoRefresh, effectDeps, resetTask, used,
                   fxVars, cxVars, mxVars, axVars, sxVars, persistVars, cacheVars, remote>>

\* loadModsBulk: appendToCachedMods resolves or rejects
LoadWriteDone ==
    /\ Flushed
    /\ \E i \in Slots, outcome \in Outcomes :
          /\ loads[i].pc = "write"
          /\ LET t == loads[i]
                 r == appendToCachedMods(modsStore, t.game, t.response, now, outcome)
             IN  /\ modsStore' = r.store
                 /\ used' = Charge(outcome)
                 /\ IF r.rejected
                    THEN /\ Catch(i, StorageError)
                         /\ mods' = mods
                         /\ currentIndex' = currentIndex
                         /\ hist' = [hist EXCEPT !.lastFailedWrite = t.response]
                    ELSE /\ AfterWrite(i, t.response, hist)
                         /\ UNCHANGED <<isLoading, isBulkLoading, loadProgress, error,
                                        isAutoRefreshing, autoCheck>>
    /\ UNCHANGED <<apiKey, selectedGame, view, approvedMods, seenModIds, seenModIdsRef,
                   cachedCount, cacheAge, lastAutoRefresh, effectDeps, resetTask,
                   metaStore, now, fxVars, cxVars, mxVars, axVars, sxVars, persistVars, remote>>

\* loadModsBulk: getCachedModCount and getCacheAge resolve (or the first
\* rejects), the statistics are set, and the call ends
LoadStatsDone ==
    /\ Flushed
    /\ \E i \in Slots, outcome \in Outcomes :
          /\ loads[i].pc = "stats"
          /\ LET t == loads[i]
                 count == getCachedModCount(modsStore, t.game, outcome)
                 age == getCacheAge(metaStore, t.game, now, outcome)
                 unseenMods == filterUnseenMods(t.response, t.currentSeenIds)
             IN  /\ used' = Charge(outcome)
                 /\ IF count.rejected
                    THEN /\ Catch(i, StorageError)
                         /\ UNCHANGED <<cachedCount, cacheAge>>
                    ELSE /\ cachedCount' = count.count
                         /\ cacheAge' = age
                         /\ error' = IF Len(unseenMods) = 0 /\ Len(t.unseenCached) = 0
                                     THEN NoNewMods ELSE error
                         /\ Finally(i)
    /\ UNCHANGED <<apiKey, selectedGame, view, mods, approvedMods, seenModIds,
                   seenModIdsRef, lastAutoRefresh, currentIndex, effectDeps, resetTask,
                   hist, fxVars, cxVars, mxVars, axVars, sxVars, persistVars, cacheVars, remote>>

\* 'Reset All' in the confirmation dialog: handleResetProgress up to its await
ResetButton ==
    /\ Flushed
    /\ view # "landing"
    /\ resetTask = "idle"
    /\ used.resets < MaxResets
    /\ used.starts < MaxStarts
    /\ used.rare < MaxRare
    /\ resetTask' = "clear"
    /\ used' = [used EXCEPT !.resets = @ + 1, !.starts = @ + 1, !.rare = @ + 1]
    /\ UNCHANGED <<stateVars, effectDeps, loads, autoCheck, hist, fxVars, cxVars, mxVars, axVars, sxVars, persistVars, cacheVars, remote>>

\* handleResetProgress: clearModCache resolves or rejects; the finally block
\* empties the state and reloads
ResetDone ==
    /\ Flushed
    /\ resetTask = "clear"
    /\ \E outcome \in ResetOutcomes :
          LET r == clearModCache(modsStore, metaStore, selectedGame, outcome)
          IN  /\ modsStore' = r.store
              /\ metaStore' = r.meta
              /\ used' = Charge(outcome)
              /\ IF apiKey # ""
                 THEN \E i \in FreeSlot : loadModsBulk(i, apiKey, selectedGame, FALSE)
                 ELSE /\ error' = IF r.rejected THEN StorageError ELSE error
                      /\ UNCHANGED <<isLoading, isBulkLoading, loads>>
    /\ seenModIds' = {}
    /\ approvedMods' = <<>>
    /\ mods' = <<>>
    /\ currentIndex' = 0
    /\ cachedCount' = 0
    /\ cacheAge' = <<>>
    /\ hist' = [HistEmpty EXCEPT !.lastNet = hist.lastNet]
    /\ resetTask' = "idle"
    /\ localStorage' = removeItem(removeItem(localStorage, "seenModIds"), "approvedMods")
    /\ UNCHANGED <<apiKey, selectedGame, view, seenModIdsRef, loadProgress,
                   lastAutoRefresh, isAutoRefreshing, effectDeps, autoCheck, now,
                   boot, fxVars, cxVars, mxVars, axVars, sxVars, remote>>

Next ==
    \/ handleStart
    \/ RefreshButton
    \/ LoadMoreButton
    \/ Swipe
    \/ Logout
    \/ Tick
    \/ RunEffects
    \/ AutoReadDone
    \/ LoadReadDone
    \/ LoadProgress
    \/ LoadNetDone
    \/ LoadWriteDone
    \/ LoadStatsDone
    \/ ResetButton
    \/ ResetDone

Spec == Init /\ [][Next]_vars

\* The calls alone: what starts them and what lets them advance
NextLive ==
    \/ handleStart
    \/ RefreshButton
    \/ LoadMoreButton
    \/ RunEffects
    \/ AutoReadDone
    \/ LoadReadDone
    \/ LoadProgress
    \/ LoadNetDone
    \/ LoadWriteDone
    \/ LoadStatsDone
    \/ ResetButton
    \/ ResetDone

\* The calls under the scheduling the runtime gives: effects run after a
\* render, and every pending storage request and remote call settles
SpecLive ==
    /\ Init
    /\ [][NextLive]_vars
    /\ WF_vars(RunEffects)
    /\ WF_vars(AutoReadDone)
    /\ WF_vars(LoadReadDone)
    /\ WF_vars(LoadNetDone)
    /\ WF_vars(LoadWriteDone)
    /\ WF_vars(LoadStatsDone)
    /\ WF_vars(ResetDone)

(***************************************************************************)
(* SpecMerge: the merge of the foreground path of loadModsBulk (App.tsx    *)
(* 216-224) as a function of its two batches, each a list of listings      *)
(* with distinct ids as the cache and fetchModsBulk give them.             *)
(***************************************************************************)
\* merges of a run
MaxMerges == 2

\* a batch: listings with pairwise distinct ids
MergeBatches ==
    {b \in CxBatches : \A j, k \in 1..Len(b) : b[j].mod_id = b[k].mod_id => j = k}

\* const allUnseen = [...unseenCached, ...unseenMods]; uniqueUnseen = ...
MergeCall ==
    /\ mx.n < MaxMerges
    /\ \E unseenCached \in MergeBatches, unseenMods \in MergeBatches :
          mx' = [n |-> mx.n + 1, unseenCached |-> unseenCached, unseenMods |-> unseenMods,
                 uniqueUnseen |-> UniqueById(unseenCached \o unseenMods)]
    /\ UNCHANGED <<fxVars, cacheVars, cxVars, appVars, persistVars, axVars, sxVars>>

InitMerge == InitFetch

NextMerge == MergeCall

SpecMerge == InitMerge /\ [][NextMerge]_vars

(***************************************************************************)
(* Properties of the merge (SpecMerge).                                    *)
(***************************************************************************)
\* C27: the merge of the cached batch and the fetched batch has one entry
\* per id, in the order in which the ids first occur in the cached batch
\* followed by the fetched batch, and the entry of an id is the record of its
\* first occurrence: for an id in both batches the cached record is kept and
\* the fetched one dropped.
C27_MergeKeepsFirst ==
    LET allUnseen == mx.unseenCached \o mx.unseenMods
        First(id) == CHOOSE i \in 1..Len(allUnseen) :
                        /\ allUnseen[i].mod_id = id
                        /\ \A j \in 1..(i - 1) : allUnseen[j].mod_id # id
    IN  /\ ModIds(mx.uniqueUnseen) = ModIds(allUnseen)
        /\ Len(mx.uniqueUnseen) = Cardinality(ModIds(allUnseen))
        /\ \A k, l \in 1..Len(mx.uniqueUnseen) :
              k < l => First(mx.uniqueUnseen[k].mod_id) < First(mx.uniqueUnseen[l].mod_id)
        /\ \A k \in 1..Len(mx.uniqueUnseen) :
              mx.uniqueUnseen[k] = allUnseen[First(mx.uniqueUnseen[k].mod_id)]

(***************************************************************************)
(* SpecSwipe: the card stack (CardStack.tsx 17-90) under key presses,      *)
(* button clicks, completed drags, its 300 ms timers and changes of the    *)
(* queue it is given.  A render follows every step; triggerSwipe is        *)
(* memoized on [currentIndex, mods.length, isAnimating] and calls the      *)
(* completeSwipe of the render in which it was made.                       *)
(***************************************************************************)
SxRest ==
    <<selectedGame, seenModIdsRef, isLoading, isBulkLoading, loadProgress, error,
      cachedCount, cacheAge, lastAutoRefresh, isAutoRefreshing, taskVars, remote,
      fxVars, cacheVars, cxVars, mxVars, axVars, persistVars>>

\* the queues handed to the card stack: listings of distinct ids
SxQueues ==
    {q \in UNION {[1..n -> {GoodMod(id, FxGame, 1) : id \in IdLo..(IdLo + 2)}] : n \in 1..2} :
        \A j, k \in 1..Len(q) : q[j].mod_id = q[k].mod_id => j = k}

\* useCallback(triggerSwipe, [currentIndex, mods.length, isAnimating]) in a
\* render with these values: the memoized function is kept when the
\* dependencies are the same
Rendered(old, idx, ms, anim) ==
    IF old.deps = <<idx, Len(ms), anim>>
    THEN old
    ELSE [deps |-> <<idx, Len(ms), anim>>,
          completeSwipe |-> [currentIndex |-> idx, mods |-> ms]]

\* CardStack shows the cards (not the spinner, not "Queue Depleted")
SxShown ==
    /\ view = "swiping"
    /\ ~(isLoading /\ ~isBulkLoading)
    /\ currentIndex < Len(mods)

\* setMods in the App: a new batch replaces the queue, or listings are
\* appended to it; the render with the new queue is followed by the effect
\* on [mods] and the render of its updates
SxDeliver ==
    /\ sx.n < MaxDeliveries
    /\ \E b \in SxQueues, append \in BOOLEAN :
          LET newMods == IF append
                         THEN mods \o SelectSeq(b, LAMBDA m : m.mod_id \notin ModIds(mods))
                         ELSE b
              first == Rendered(sx.trigger, currentIndex, newMods, sx.isAnimating)
          IN  /\ append => mods # <<>>
              /\ mods' = newMods
              /\ sx' = [sx EXCEPT !.n = @ + 1,
                                  !.isAnimating = FALSE,
                                  !.exitDirection = "",
                                  !.swipeInProgress = FALSE,
                                  !.trigger = Rendered(first, 0, newMods, FALSE)]
    /\ currentIndex' = 0
    /\ view' = "swiping"
    /\ apiKey' = EnteredKey
    /\ UNCHANGED <<approvedMods, seenModIds, SxRest>>

\* triggerSwipe(direction), as memoized
triggerSwipe(direction) ==
    IF sx.isAnimating \/ currentIndex >= Len(mods) \/ sx.swipeInProgress
    THEN UNCHANGED sx
    ELSE sx' = [sx EXCEPT !.swipeInProgress = TRUE,
                          !.isAnimating = TRUE,
                          !.exitDirection = direction,
                          !.trigger = Rendered(@, currentIndex, mods, TRUE),
                          !.timers = Append(@, [direction |-> direction,
                                                completeSwipe |-> sx.trigger.completeSwipe])]

\* handleKeyDown: a/ArrowLeft or d/ArrowRight
SxKey ==
    /\ view = "swiping"
    /\ ~((isLoading /\ ~isBulkLoading) \/ sx.isAnimating \/ currentIndex >= Len(mods))
    /\ \E direction \in {"left", "right"} : triggerSwipe(direction)
    /\ sx' # sx
    /\ UNCHANGED <<apiKey, view, mods, currentIndex, approvedMods, seenModIds, SxRest>>

\* the round buttons below the card (disabled={isAnimating})
SxButton ==
    /\ SxShown
    /\ ~sx.isAnimating
    /\ \E direction \in {"left", "right"} : triggerSwipe(direction)
    /\ sx' # sx
    /\ UNCHANGED <<apiKey, view, mods, currentIndex, approvedMods, seenModIds, SxRest>>

\* completeSwipe(direction) of the render that saw currentIndex and mods as
\* in c; onReject/onApprove are handleReject/handleApprove of the App
completeSwipe(c, direction, rest) ==
    IF c.currentIndex >= Len(c.mods)
    THEN /\ sx' = [sx EXCEPT !.timers = rest]
         /\ UNCHANGED <<currentIndex, approvedMods, seenModIds>>
    ELSE LET currentMod == c.mods[c.currentIndex + 1]
         IN  /\ approvedMods' = IF direction = "right"
                                THEN Append(approvedMods, currentMod)
                                ELSE approvedMods
             /\ seenModIds' = seenModIds \cup {currentMod.mod_id}
             /\ currentIndex' = currentIndex + 1
             /\ sx' = [sx EXCEPT !.isAnimating = FALSE,
                                 !.exitDirection = "",
                                 !.swipeInProgress = FALSE,
                                 !.timers = rest,
                                 !.trigger = Rendered(@, currentIndex + 1, mods, FALSE),
                                 !.calls = Append(@, [direction |-> direction,
                                                      mod_id |-> currentMod.mod_id])]

\* the timer of a triggerSwipe call fires after 300 ms
SxTimer ==
    /\ \E k \in 1..Len(sx.timers) :
          completeSwipe(sx.timers[k].completeSwipe, sx.timers[k].direction,
                        SubSeq(sx.timers, 1, k - 1) \o SubSeq(sx.timers, k + 1, Len(sx.timers)))
    /\ UNCHANGED <<apiKey, view, mods, SxRest>>

\* handleSwipe(direction): the top card reports a completed drag
\* (drag={isTop && !isAnimating})
SxDrag ==
    /\ SxShown
    /\ ~sx.isAnimating
    /\ ~sx.swipeInProgress
    /\ \E direction \in {"left", "right"} :
          completeSwipe([currentIndex |-> currentIndex, mods |-> mods], direction, sx.timers)
    /\ UNCHANGED <<apiKey, view, mods, SxRest>>

InitSwipe == InitFetch

NextSwipe == SxDeliver \/ SxKey \/ SxButton \/ SxTimer \/ SxDrag

SpecSwipe == InitSwipe /\ [][NextSwipe]_vars

(***************************************************************************)
(* Properties of the card stack (SpecSwipe).                               *)
(***************************************************************************)
\* C32: each card yields exactly one decision: a step calls onApprove or
\* onReject exactly when the card index advances, it calls one of them
\* once, for the card at the current index of the queue, and the index
\* advances by exactly one.
C32_OneDecisionPerCard ==
    [][(sx'.calls # sx.calls \/ currentIndex' > currentIndex) =>
          /\ currentIndex < Len(mods)
          /\ currentIndex' = currentIndex + 1
          /\ Len(sx'.calls) = Len(sx.calls) + 1
          /\ sx'.calls[Len(sx'.calls)].mod_id = mods[currentIndex + 1].mod_id]_vars

(***************************************************************************)
(* SpecRace: appendToCachedMods calls for one catalog in flight together   *)
(* (cacheService.ts 108-149), request by request.  Each call opens the     *)
(* database, creates one readwrite transaction on the mods store and       *)
(* places a get, and a put when nothing was found, for each listing.       *)
(* IndexedDB starts a readwrite transaction only when every transaction    *)
(* created before it on the same store has finished.                       *)
(***************************************************************************)
AxCalls == 1..MaxAppends

\* the batches of the calls: displayable listings of three ids, an id
\* possibly twice
AxBatches ==
    UNION {[1..n -> {GoodMod(id, FxGame, 1) : id \in IdLo..(IdLo + 2)}] : n \in 0..MaxBatchLen}

\* the transaction of call i is the one IndexedDB runs
AxActive(i) == ax.queue # <<>> /\ Head(ax.queue) = i

\* a call that completed before the others start: the previous cache
AxEarlier ==
    /\ ~ax.started
    /\ \E batch \in AxBatches :
          LET r == appendToCachedMods(modsStore, FxGame, batch, now, "ok")
          IN  /\ modsStore' = r.store
              /\ ax' = [ax EXCEPT !.started = TRUE,
                                  !.prior = CachedIds(r.store, FxGame)]
    /\ UNCHANGED <<metaStore, now, fxVars, cxVars, appVars, persistVars, mxVars, sxVars>>

\* appendToCachedMods(game, newMods) is called: await openDB()
AxCall(i) ==
    /\ ax.started
    /\ ax.calls[i].pc = "idle"
    /\ \E newMods \in AxBatches :
          ax' = [ax EXCEPT !.calls[i] = [AxNoCall EXCEPT !.pc = "open", !.newMods = newMods]]
    /\ UNCHANGED <<cacheVars, fxVars, cxVars, appVars, persistVars, mxVars, sxVars>>

\* openDB settles: db.transaction(MODS_STORE, 'readwrite'), or the catch
\* block (return 0)
AxOpened(i) ==
    /\ ax.calls[i].pc = "open"
    /\ \E outcome \in {"ok", "openFail"} :
          ax' = IF outcome = "ok"
                THEN [ax EXCEPT !.queue = Append(@, i),
                                !.calls[i].pc = "loop",
                                !.calls[i].k = 1,
                                !.calls[i].waited = ax.queue # <<>>]
                ELSE [ax EXCEPT !.calls[i].pc = "done", !.calls[i].failed = TRUE]
    /\ UNCHANGED <<cacheVars, fxVars, cxVars, appVars, persistVars, mxVars, sxVars>>

\* one turn of the loop: store.get(cacheKey) answers, and store.put when
\* nothing was found; after the last listing the call returns the promise
\* of the transaction
AxItem(i) ==
    /\ ax.calls[i].pc = "loop"
    /\ AxActive(i)
    /\ LET c == ax.calls[i]
       IN  IF c.k > Len(c.newMods)
           THEN /\ ax' = [ax EXCEPT !.calls[i].pc = "commit"]
                /\ UNCHANGED modsStore
           ELSE LET mod == c.newMods[c.k]
                    cacheKey == getModCacheKey(FxGame, mod.mod_id)
                    existing == cacheKey \in DOMAIN modsStore
                IN  /\ modsStore' = IF ~existing
                                    THEN Put(modsStore, CacheEntry(FxGame, mod, now))
                                    ELSE modsStore
                    /\ ax' = [ax EXCEPT !.calls[i].k = @ + 1,
                                        !.calls[i].putKeys =
                                            IF ~existing THEN @ \cup {cacheKey} ELSE @]
    /\ UNCHANGED <<metaStore, now, fxVars, cxVars, appVars, persistVars, mxVars, sxVars>>

\* the transaction finishes: tx.oncomplete resolves addedCount, tx.onerror
\* rejects and the aborted transaction's puts are undone
AxSettle(i) ==
    /\ ax.calls[i].pc = "commit"
    /\ AxActive(i)
    /\ \E outcome \in {"ok", "txError"} :
          IF outcome = "ok"
          THEN /\ ax' = [ax EXCEPT !.queue = Tail(@), !.calls[i].pc = "done"]
               /\ UNCHANGED modsStore
          ELSE /\ ax' = [ax EXCEPT !.queue = Tail(@), !.calls[i].pc = "done",
                                   !.calls[i].failed = TRUE,
                                   !.calls[i].rejected = TRUE]
               /\ modsStore' = [k \in DOMAIN modsStore \ ax.calls[i].putKeys |-> modsStore[k]]
    /\ UNCHANGED <<metaStore, now, fxVars, cxVars, appVars, persistVars, mxVars, sxVars>>

InitRace == InitFetch

NextRace ==
    \/ AxEarlier
    \/ \E i \in AxCalls : AxCall(i) \/ AxOpened(i) \/ AxItem(i) \/ AxSettle(i)

SpecRace == InitRace /\ [][NextRace]_vars

(***************************************************************************)
(* Properties of racing appends (SpecRace).                                *)
(***************************************************************************)
AxAllDone == \A i \in AxCalls : ax.calls[i].pc = "done" /\ ~ax.calls[i].failed

AxUnion == ax.prior \cup UNION {ModIds(ax.calls[i].newMods) : i \in AxCalls}

\* C29: when appendToCachedMods calls for the same catalog are in flight
\* together and all of them complete, the cache of the catalog holds exactly
\* one entry per id of the union of the previous cache and the batches, in
\* whatever order the calls opened the database and their transactions ran.
C29_RacingAppendsUnion ==
    AxAllDone =>
        /\ CachedIds(modsStore, FxGame) = AxUnion
        /\ Cardinality(GameKeys(modsStore, FxGame)) = Cardinality(AxUnion)
        /\ \A k \in DOMAIN modsStore : k = getModCacheKey(modsStore[k].game, modsStore[k].mod_id)

\* C29 witness: the call made first created its transaction second and had
\* to wait for the other; the batches share an id, one of them holds an id
\* of the previous cache, and each brought an id the other had not
C29_Witness ==
    /\ AxAllDone
    /\ ax.calls[1].waited
    /\ ModIds(ax.calls[1].newMods) \cap ModIds(ax.calls[2].newMods) # {}
    /\ ax.calls[1].putKeys # {}
    /\ ax.calls[2].putKeys # {}
    /\ \E i \in AxCalls : ModIds(ax.calls[i].newMods) \cap ax.prior # {}

(***************************************************************************)
(* Properties of the application (Spec, SpecLive).                         *)
(***************************************************************************)
\* the loadModsBulk calls whose fetchModsBulk is running
Fetching == {i \in Slots : loads[i].pc = "net"}

\* C1: at every moment at most one fetchModsBulk started through
\* loadModsBulk is running, whatever started it.
C1_SingleFetchInFlight == Cardinality(Fetching) <= 1

\* C2: between two resets no id is put into the live queue twice.
C2_NoIdHandedTwice == hist.twice = {}

\* C3: a batch delivered to the queue holds no id that had been reported seen
\* when it was delivered.
C3_SeenNeverDelivered == hist.lastIds \cap hist.lastSeen = {}

\* what the specification calls displayable
Displayable(m) ==
    /\ m.name # ""
    /\ (m.picture_url # "" \/ m.summary # "")
    /\ m.status \in {"", "published"}
    /\ m.available # "false"

C16_AutoRefreshCooldown ==
    [][(~isAutoRefreshing /\ isAutoRefreshing') =>
          /\ QueueRemaining < LOW_QUEUE_THRESHOLD
          /\ (hist.lastNet >= 0 => now - hist.lastNet >= AUTO_REFRESH_COOLDOWN)]_vars

\* C18: when no storage call has failed, every listing a loadModsBulk call
\* places in the live queue is in the cache of its catalog at that moment.
C18_DeliveredAreCached ==
    [][((\E i \in Slots : loads'[i] # loads[i]) /\ used'.faults = 0) =>
          \A j \in 1..Len(mods') :
              mods'[j] \notin Range(mods) =>
                  getModCacheKey(mods'[j].domain_name, mods'[j].mod_id)
                      \in DOMAIN modsStore']_vars

\* C5: every listing in the cache and every listing in the live queue is
\* displayable, whether it came from the item endpoint or from a curated list.
C5_OnlyDisplayable ==
    /\ \A k \in DOMAIN modsStore : Displayable(modsStore[k].data)
    /\ \A j \in 1..Len(mods) : Displayable(mods[j])

\* C5 witness: the remote service answered with hidden records from the item
\* endpoint and from a curated list next to displayable ones; the displayable
\* ones are cached and queued, the hidden one is in neither
C5_Witness ==
    /\ ListOnlyId \in ModIds(mods)
    /\ RemoteFirst \in ModIds(mods)
    /\ {ListOnlyId, RemoteFirst} \subseteq CachedIds(modsStore, FxGame)
    /\ RemoteFirst + 1 \notin CachedIds(modsStore, FxGame) \cup ModIds(mods)
    /\ \E k \in 1..3 : \E j \in 1..Len(remote.l[k].body) :
          ~Displayable(remote.l[k].body[j])

\* the unseen listings a cache read of the game gives now
UnseenCachedNow(game, seenIds) ==
    Len(filterUnseenMods(getCachedMods(modsStore, game, "ok").mods, seenIds))

\* BULK_FETCH_COUNT / 2
HalfBulkFetchCount == BULK_FETCH_COUNT \div 2

\* C6 as claimed: a loadModsBulk call, foreground or background, whose cache
\* read gave at least LOW_QUEUE_THRESHOLD unseen listings issues no remote call.
C6_CacheOnlyAtLowQueueThreshold ==
    \A i \in Slots : loads[i].remote => loads[i].unseenAtRead < LOW_QUEUE_THRESHOLD

\* C6 amended: the low-queue threshold is that of checkAndAutoRefresh, which
\* serves the queue from the cache alone (at most SPLICE_LIMIT listings, no
\* loadModsBulk, no remote call) when its cache read gives at least
\* LOW_QUEUE_THRESHOLD unseen listings and starts a background loadModsBulk
\* otherwise.  A foreground loadModsBulk completes from the cache alone when
\* its cache read gives at least BULK_FETCH_COUNT / 2 unseen listings, and
\* calls fetchModsBulk otherwise; a background loadModsBulk always calls
\* fetchModsBulk.
C6_CacheOnlyThresholds ==
    /\ [](\A i \in UserSlots :
            loads[i].remote => loads[i].unseenAtRead < HalfBulkFetchCount)
    /\ [](autoCheck.pc = "load" => autoCheck.unseenAtRead < LOW_QUEUE_THRESHOLD)
    /\ [][(autoCheck.pc = "read" /\ autoCheck'.pc # "read" /\ used' = used) =>
            IF UnseenCachedNow(autoCheck.game, autoCheck.seenIds) >= LOW_QUEUE_THRESHOLD
            THEN /\ autoCheck'.pc = "idle"
                 /\ loads' = loads
                 /\ Len(mods') <= Len(mods) + SPLICE_LIMIT
                 /\ SubSeq(mods', 1, Len(mods)) = mods
            ELSE /\ autoCheck'.pc = "load"
                 /\ loads'[AutoSlot].pc = "read"]_vars
    /\ [][\A i \in Slots :
            (loads[i].pc = "read" /\ loads'[i].pc # "read" /\ used' = used) =>
              IF /\ i \in UserSlots
                 /\ UnseenCachedNow(loads[i].game, loads[i].currentSeenIds)
                        >= HalfBulkFetchCount
              THEN /\ loads'[i].pc = "idle"
                   /\ Len(mods') >= HalfBulkFetchCount
                   /\ \A j \in Slots : ~loads'[j].remote \/ loads[j].remote
              ELSE /\ loads'[i].pc = "net"
                   /\ loads'[i].remote]_vars

\* C6 witness: a foreground call whose cache read gave 25 unseen listings
\* (at least LOW_QUEUE_THRESHOLD, fewer than BULK_FETCH_COUNT / 2) has issued
\* fetchModsBulk, and the queue was last extended by an auto-refresh splice
\* of at least LOW_QUEUE_THRESHOLD cached listings
C6_Witness ==
    /\ \E i \in UserSlots :
          /\ loads[i].remote
          /\ loads[i].unseenAtRead >= LOW_QUEUE_THRESHOLD
    /\ hist.lastKind = "splice"
    /\ Cardinality(hist.lastIds) >= LOW_QUEUE_THRESHOLD

\* every call is idle
AllIdle == (\A i \in Slots : loads[i].pc = "idle") /\ autoCheck.pc = "idle"

C8_WriteFailureTolerated ==
    [][\A i \in Slots :
         (loads[i].pc = "write" /\ loads'[i].pc # "write" /\ modsStore' = modsStore
            /\ used'.faults > used.faults) =>
              /\ loads'[i].pc = "stats"
              /\ ModIds(filterUnseenMods(loads[i].response, loads[i].currentSeenIds))
                    \subseteq ModIds(mods')
              /\ error' = error]_vars

\* C21: the API key is held in component memory only: in every reachable
\* state localStorage holds the items seenModIds (numbers) and approvedMods
\* (listings) and nothing else, the IndexedDB stores hold cache entries and
\* catalog metadata, and no string stored in any of them is the key the user
\* entered, whether the user has started, fetched, swiped, reset or logged out.
C21_KeyOnlyInMemory ==
    LET IsKey(str) == str # "" /\ str \in {apiKey, EnteredKey}
        HoldsKey(mod) ==
            \/ IsKey(mod.name) \/ IsKey(mod.picture_url) \/ IsKey(mod.summary)
            \/ IsKey(mod.status) \/ IsKey(mod.domain_name)
    IN  /\ DOMAIN localStorage = {"seenModIds", "approvedMods"}
        /\ \A j \in 1..Len(localStorage.approvedMods.items) :
              ~HoldsKey(localStorage.approvedMods.items[j])
        /\ \A k \in DOMAIN modsStore :
              /\ DOMAIN modsStore[k] = {"cacheKey", "game", "mod_id", "data", "timestamp"}
              /\ ~IsKey(modsStore[k].game)
              /\ ~IsKey(k[1])
              /\ ~HoldsKey(modsStore[k].data)
        /\ \A g \in DOMAIN metaStore :
              /\ DOMAIN metaStore[g] = {"key", "timestamp", "modCount"}
              /\ ~IsKey(metaStore[g].key)

\* C21 witness: the user has started with a key, a fetch has settled and its
\* listings are cached, an approval has been saved to localStorage, and the
\* user has logged out
C21_Witness ==
    /\ used.starts > 0
    /\ used.logouts > 0
    /\ apiKey = ""
    /\ hist.lastNet >= 0
    /\ modsStore # EmptyStore
    /\ localStorage.approvedMods.items # <<>>

\* C25: when the cache read of the auto-refresh check succeeds and gives at
\* least LOW_QUEUE_THRESHOLD (20) listings outside the seen set the check
\* read, the check ends without a remote call, and the queue afterwards is
\* the queue before, in its order, followed by at most SPLICE_LIMIT (50)
\* listings, each of them cached for the catalog, outside that seen set and
\* not in the queue before.
C25_SpliceFromCache ==
    [][(/\ autoCheck.pc = "read"
        /\ autoCheck' # autoCheck
        /\ used'.faults = used.faults
        /\ Cardinality({k \in GameKeys(modsStore, autoCheck.game) :
                           k[2] \notin autoCheck.seenIds}) >= LOW_QUEUE_THRESHOLD) =>
          /\ autoCheck'.pc = "idle"
          /\ loads' = loads
          /\ Len(mods') >= Len(mods)
          /\ Len(mods') - Len(mods) <= SPLICE_LIMIT
          /\ SubSeq(mods', 1, Len(mods)) = mods
          /\ \A j \in (Len(mods) + 1)..Len(mods') :
                /\ getModCacheKey(autoCheck.game, mods'[j].mod_id) \in DOMAIN modsStore
                /\ modsStore[getModCacheKey(autoCheck.game, mods'[j].mod_id)].data = mods'[j]
                /\ mods'[j].mod_id \notin autoCheck.seenIds
                /\ mods'[j].mod_id \notin ModIds(mods)]_vars

\* C25 witness: the check has just appended SPLICE_LIMIT cached listings to
\* a queue that held listings, the user has swiped, and the cache holds more
\* unseen listings than were appended
C25_Witness ==
    /\ hist.lastKind = "splice"
    /\ Cardinality(hist.lastIds) = SPLICE_LIMIT
    /\ Len(mods) > SPLICE_LIMIT
    /\ seenModIds # {}
    /\ autoCheck.pc = "idle"
    /\ Cardinality(GameKeys(modsStore, selectedGame)) > SPLICE_LIMIT + Len(mods)

\* C26: when a background loadModsBulk call gets past its fetch and its cache
\* write without a failure, every listing the fetch returned is in the cache,
\* and the queue afterwards is the queue before, in its order, followed by
\* the returned listings whose ids were not in it: nothing that was in the
\* queue is removed or moved.
C26_BackgroundAppends ==
    [][\A i \in Slots :
         (/\ loads[i].isBackground
          /\ loads[i].pc \in {"net", "write"}
          /\ loads'[i].pc = "stats"
          /\ used'.faults = used.faults) =>
            /\ \A m \in Range(loads'[i].response) :
                  getModCacheKey(loads[i].game, m.mod_id) \in DOMAIN modsStore'
            /\ Len(mods') >= Len(mods)
            /\ SubSeq(mods', 1, Len(mods)) = mods
            /\ \A j \in (Len(mods) + 1)..Len(mods') : mods'[j] \in Range(loads'[i].response)
            /\ {mods'[j].mod_id : j \in (Len(mods) + 1)..Len(mods')}
                  = ModIds(loads'[i].response) \ ModIds(mods)]_vars

\* C26 witness: a background call has just appended listings to a queue
\* that held others
C26_Witness ==
    /\ hist.lastKind = "append"
    /\ hist.lastIds # {}
    /\ Len(mods) > Cardinality(hist.lastIds)
    /\ \E i \in Slots : loads[i].pc = "stats" /\ loads[i].isBackground

\* the step on which handleResetProgress settles
ResetStep == resetTask = "clear" /\ resetTask' = "idle"

\* the seen set changes only by a swipe adding the id of the swiped card, or
\* by a reset
SeenGrowsBySwipe ==
    seenModIds' # seenModIds =>
        \/ ResetStep
        \/ /\ currentIndex < Len(mods)
           /\ currentIndex' = currentIndex + 1
           /\ seenModIds' = seenModIds \cup {mods[currentIndex + 1].mod_id}

\* C28 as stated: the seen set grows only by the id of the swiped card until
\* a reset, and a reset empties the seen set, the approved list and the
\* cache, so that no cached entry that was there before the reset is there
\* after it.
C28_ResetEmptiesCache ==
    [][/\ SeenGrowsBySwipe
       /\ ResetStep =>
             /\ seenModIds' = {}
             /\ approvedMods' = <<>>
             /\ DOMAIN modsStore' \cap DOMAIN modsStore = {}]_vars

\* C28: the seen set grows only by the id of the swiped card until a reset.
\* A reset always empties the seen set, the approved list and their stored
\* copies; when its clearModCache call succeeds it removes the cached
\* entries and the metadata of the selected catalog and leaves those of
\* every other catalog, and when that call fails the cache is left as it
\* was and the state is emptied all the same.
C28_ResetEmptiesState ==
    [][/\ SeenGrowsBySwipe
       /\ ResetStep =>
             /\ seenModIds' = {}
             /\ approvedMods' = <<>>
             /\ localStorage'.seenModIds.kind = "null"
             /\ localStorage'.approvedMods.kind = "null"
             /\ \A k \in DOMAIN modsStore : modsStore[k].game # selectedGame =>
                   k \in DOMAIN modsStore' /\ modsStore'[k] = modsStore[k]
             /\ DOMAIN modsStore' \subseteq DOMAIN modsStore
             /\ IF used'.faults = used.faults
                THEN /\ GameKeys(modsStore', selectedGame) = {}
                     /\ selectedGame \notin DOMAIN metaStore'
                ELSE /\ modsStore' = modsStore
                     /\ metaStore' = metaStore]_vars

\* C28 witness: a reset has just emptied a seen set that swipes had filled
\* and a cache that held the catalog's listings, without a failure
C28_Witness ==
    /\ used.resets > 0
    /\ used.swipes > 0
    /\ used.faults = 0
    /\ resetTask = "idle"
    /\ seenModIds = {}
    /\ approvedMods = <<>>
    /\ hist.lastNet >= 0
    /\ GameKeys(modsStore, selectedGame) = {}
    /\ localStorage.seenModIds.kind = "null"

AppendStep ==
    /\ hist'.lastKind \in {"append", "splice"}
    /\ Len(mods') > Len(mods)
    /\ SubSeq(mods', 1, Len(mods)) = mods

\* C31: a card the user has decided on is not presented again by an append:
\* when listings are appended to the live queue (background fetch or cache
\* splice) while the card stack is at position k > 0, the card stack stays
\* at position k, so the card on top afterwards is not one of the cards
\* before position k.
C31_AppendKeepsPosition ==
    [][(AppendStep /\ currentIndex > 0) => currentIndex' = currentIndex]_vars

\* C33: the live queue never holds two listings with the same id, after any
\* sequence of foreground loads, background appends and cache splices.
C33_QueueIdsDistinct == Cardinality(ModIds(mods)) = Len(mods)

\* C33 witness: after swipes, listings were appended to a queue that held
\* others, some of them listings that had been handed to the queue before
C33_Witness ==
    /\ hist.lastKind \in {"append", "splice"}
    /\ hist.lastIds # {}
    /\ Len(mods) > Cardinality(hist.lastIds)
    /\ used.swipes > 0
    /\ seenModIds # {}

\* call i takes a step on the way to a failure of its cache read or of its
\* fetch: it starts (outside a reset), goes from the read to the fetch, or
\* ends in its catch block from the read or from the fetch
TowardsFailure(i) ==
    /\ loads'[i] # loads[i]
    /\ ~ResetStep
    /\ \/ loads[i].pc = "idle" /\ loads'[i].pc = "read"
       \/ loads[i].pc = "read" /\ loads'[i].pc = "net"
       \/ loads[i].pc = "net" /\ loads'[i].pc = "idle"
       \/ /\ loads[i].pc = "read"
          /\ loads'[i].pc = "idle"
          /\ ~UseCacheOnly(filterUnseenMods(getCachedMods(modsStore, loads[i].game, "ok").mods,
                                            loads[i].currentSeenIds),
                           loads[i].isBackground)

\* C34: a batch request that fails at its cache read or at fetchModsBulk
\* leaves the live queue, the card position, the seen set and the cache as
\* they were before the request: no step of the request, from the call of
\* loadModsBulk to its catch block, changes any of them.
C34_FailedRequestChangesNothing ==
    [][\A i \in Slots :
          TowardsFailure(i) =>
              /\ mods' = mods
              /\ currentIndex' = currentIndex
              /\ seenModIds' = seenModIds
              /\ modsStore' = modsStore
              /\ metaStore' = metaStore]_vars

\* an auto-refresh attempt starts: checkAndAutoRefresh passes its guards
AutoStart == autoCheck.pc = "idle" /\ autoCheck'.pc = "read"

\* C35: two auto-refresh attempts never start less than AUTO_REFRESH_COOLDOWN
\* ms apart.  lastAutoRefresh is the time of the latest attempt: it is set to
\* the current time by the step that starts an attempt, before the cache is
\* read, and by no other step (manual refreshes, loads, resets), and an
\* attempt starts only when the cooldown since that time is over.
C35_AttemptsCooldownApart ==
    [][/\ AutoStart => /\ now - lastAutoRefresh >= AUTO_REFRESH_COOLDOWN
                       /\ lastAutoRefresh' = now
                       /\ modsStore' = modsStore
       /\ lastAutoRefresh' # lastAutoRefresh => AutoStart]_vars

\* C35 witness: a second attempt has started, one clock step after the first;
\* the first went to the network (its background load, the only one of the
\* session, appended to the queue)
C35_Witness ==
    /\ autoCheck.pc = "read"
    /\ lastAutoRefresh = StartTime + TickMs
    /\ lastAutoRefresh = now
    /\ hist.lastKind = "append"
    /\ used.starts = 1

(***************************************************************************)
(* SpecDecide: the handlers that change the approved list and the seen set *)
(* (App.tsx 260-271, 287-310) across page loads: the steps of SpecPersist  *)
(* and the reset of progress.                                              *)
(***************************************************************************)
\* handleResetProgress with no API key entered: clearModCache settles, the
\* finally block empties the state and removes the two stored items
handleResetProgress ==
    /\ boot.pc = "ready"
    /\ \E outcome \in StorageOutcomes :
          LET r == clearModCache(modsStore, metaStore, selectedGame, outcome)
          IN  /\ modsStore' = r.store
              /\ metaStore' = r.meta
              /\ error' = IF r.rejected THEN StorageError ELSE error
    /\ seenModIds' = {}
    /\ approvedMods' = <<>>
    /\ mods' = <<>>
    /\ currentIndex' = 0
    /\ cachedCount' = 0
    /\ cacheAge' = <<>>
    /\ localStorage' = removeItem(removeItem(localStorage, "seenModIds"), "approvedMods")
    /\ boot' = [boot EXCEPT !.pc = "changed",
                            !.decided = [seen |-> {}, approved |-> <<>>]]
    /\ UNCHANGED <<apiKey, selectedGame, view, seenModIdsRef, isLoading,
                   isBulkLoading, loadProgress, lastAutoRefresh, isAutoRefreshing,
                   taskVars, remote, now, fxVars, cxVars, mxVars, axVars, sxVars>>

InitDecide == InitPersist

NextDecide ==
    \/ MountEffects
    \/ RenderLoaded
    \/ handleApprove
    \/ handleReject
    \/ handleRemoveApproved
    \/ handleResetProgress
    \/ SaveEffects
    \/ Reload

SpecDecide == InitDecide /\ [][NextDecide]_vars

\* C36: every id in the approved list is in the seen set, after any sequence
\* of approvals, rejections, removals from the list, resets and page loads
\* that starts with both empty.
C36_ApprovedAreSeen == ModIds(approvedMods) \subseteq seenModIds

\* C36 witness: a card is on the approved list while another decided card is
\* not (it was rejected, or approved and removed from the list), after the
\* stored items were written anew
C36_Witness ==
    /\ boot.pc = "ready"
    /\ approvedMods # <<>>
    /\ seenModIds \ ModIds(approvedMods) # {}
    /\ localStorage = SavedStorage(seenModIds, approvedMods)

\* C37: the approved list never contains the same item id twice, after any
\* interleaving of swipes, foreground and background loads and cache splices.
C37_ApprovedIdsDistinct == Cardinality(ModIds(approvedMods)) = Len(approvedMods)

====
